---------------------------- MODULE Spec2Model ----------------------------
(***************************************************************************)
(* A model of the benchmark orchestration engine of bitcoinperf:           *)
(*   - Benchmark.run / _IbdBench._run / _IbdBench._teardown                *)
(*     (runner/benchmarks.py), the Node wrapper (runner/bitcoind.py) and   *)
(*     the process shutdown handler (runner/main.py)        -- Spec        *)
(*   - the host-wide lockfile (runner/main.py)              -- SpecLock    *)
(*   - BuildManager.build and BuildCache (runner/bitcoind.py)              *)
(*                                               -- SpecCache, SpecClean   *)
(*   - Node.wait_for_init (runner/bitcoind.py)    -- SpecWaitInit(Fair)    *)
(*   - the status polls of the benchmark loop     -- SpecPoll(Fair)        *)
(*   - logparse.get_flush_times (runner/logparse.py)        -- SpecLog     *)
(*   - Command.get_resource_usage (runner/sh.py)            -- SpecUsage   *)
(*   - executions of one run in a row (runner/main.py)      -- SpecSeq     *)
(* Each specification leaves the variables of the other parts unchanged.   *)
(***************************************************************************)
EXTENDS Integers, Sequences, FiniteSets, TLC

VARIABLES
    \* ---- one harness process running IBD-style benchmarks ----
    cfg,            \* bench_cfg / cfg of the execution
    pc,             \* position of the harness process
    all_instances,  \* Node.all_instances: one record per constructed Node
    server_node,    \* self.server_node: index into all_instances, 0 = None
    client_node,    \* self.client_node: index into all_instances, 0 = None
    last_height_seen,
    progress,
    start_time,
    time_now,
    now,            \* time.time()
    report_to_codespeed_heights,
    reported,       \* calls of results.report_result, in order
    total_time_secs,\* self.results.total_time_secs
    run_result,     \* how _run ended: "none" | "completed" | "failed" | "raised"
    run_exc,        \* exception leaving _run ("none" when none)
    teardown_exc,   \* exception leaving _teardown ("none" when none)
    teardown_calls, \* number of calls of _teardown in this execution
    datadir,        \* working data directory: "absent" | "present" | "removed" | "stashed"
    observed,       \* what each answered poll of the loop saw, and when
    height_to_data, \* self.results.height_to_data, in insertion order
    server_blocks,  \* the server's block count read before the loop
    client_headers, \* the client's header count read before the loop
    marker_age,     \* lines from the end of debug.log to the last disk-low
                    \* marker, as the run ends (None: no marker)
    src_datadir,    \* bench_cfg.src_datadir: "none" | "present" | "removed" | "stashed"
    \* ---- processes competing for the lockfile ----
    lockfile,       \* does LOCKFILE_PATH exist
    lpc,            \* position of each process
    lockfile_held,  \* G.lockfile_held of each process
    acquired,       \* has _try_acquire_lockfile of the process returned True
    removals,       \* unlink calls of each process that removed the file
    \* ---- build cache ----
    cachedir,       \* the cache directory: entry name -> entry
    repo,           \* the binaries of the working source tree at repo_path
    cache_path,     \* is BuildManager.cache_path configured
    build_ret,      \* how the last build (or clean) call ended
    build_key,      \* the cache key of the last build call
    build_val,      \* what the last build call gave its caller
    deleted,        \* the entries the last clean called sh.rm on
    clock,          \* file system time
    \* ---- git targets ----
    to_bench,       \* cfg.to_bench: the targets of the run
    gitco,          \* Target.gitco of each target
    head,           \* the commit HEAD of the repository is at
    rt,             \* how the last resolve_targets call ended
    rt_first,       \* how the first resolve_targets call ended
    calls,          \* resolve_targets calls so far
    \* ---- run_full_suite ----
    benches,        \* cfg.benches: the benchmarks configured
    spc,            \* position of run_full_suite
    ran,            \* benchmark executions started so far
    last_run,       \* how the last execution ended
    \* ---- Node.wait_for_init ----
    wpc,            \* position of the call
    wnode,          \* the process of the node waited for
    require_height, \* the argument (0: None)
    num_tries,
    bitcoind_up,
    block_count,
    stop_accepted,  \* has the node taken a "stop" request
    \* ---- the polling loop and Node.poll_for_height_and_progress ----
    ppc,            \* position in the loop
    tries_left,
    info,           \* the answer of the last status query
    poll_ret,       \* the pair the last poll returned
    failed,         \* status queries failed in a row in the poll under way
    polls,          \* polls made so far, counted up to MaxPolls
    nstate,         \* the polled node: "syncing" | "reached" | "mute" | "exited"
    \* ---- logparse.get_flush_times ----
    log,            \* the lines of the log file
    lgpc,           \* position of the call
    log_start,      \* start_time
    times,          \* the list built
    lineno,         \* lines read by the second loop
    \* ---- Command.get_resource_usage ----
    ptree,          \* the processes below the spawned one: name and parent
    cmd_daemon,     \* 'bitcoind' in self.cmd
    upc,            \* position of the call
    uproc           \* proc: the process looked at (0: none yet)

ibdVars == <<cfg, pc, all_instances, server_node, client_node,
             last_height_seen, progress, start_time, time_now, now,
             report_to_codespeed_heights, reported, total_time_secs,
             run_result, run_exc, teardown_exc, teardown_calls, datadir,
             observed, height_to_data, server_blocks, client_headers,
             marker_age, src_datadir>>
lockVars == <<lockfile, lpc, lockfile_held, acquired, removals>>
cacheVars == <<cachedir, repo, cache_path, build_ret, build_key, build_val,
              deleted, clock>>
gitVars == <<to_bench, gitco, head, rt, rt_first, calls>>
suiteVars == <<benches, spc, ran, last_run>>
waitVars == <<wpc, wnode, require_height, num_tries, bitcoind_up, block_count,
              stop_accepted>>
pollVars == <<ppc, tries_left, info, poll_ret, failed, polls, nstate>>
logVars == <<log, lgpc, log_start, times, lineno>>
usageVars == <<ptree, cmd_daemon, upc, uproc>>
auxVars == <<waitVars, pollVars, logVars, usageVars>>
harnessVars == <<gitVars, suiteVars, auxVars>>
vars == <<ibdVars, lockVars, cacheVars, harnessVars>>

(***************************************************************************)
(* Bounds of the model.                                                    *)
(***************************************************************************)
MaxHeightIdx == 5      \* heights reported by the node are 0, 50, .., 50 * MaxHeightIdx
MaxTime == 4           \* polling ticks of one execution
NumProcs == 3          \* harness processes started on the host
MaxKeys == 6           \* distinct cache keys (target, compiler) built
MaxClock == 8          \* builds that save their tree in the cache
MaxCacheFiles == 7     \* entries of a cache directory handed to clean
MaxMtime == 2          \* distinct modification times of those entries
MaxTargets == 3        \* targets of a run
MaxCalls == 2          \* resolve_targets calls on one repository
MaxRunCount == 2       \* run_count of a benchmark

None == 0 - 1          \* Python's None for a number
TimedOut == 0 - 2      \* join(timeout) raised subprocess.TimeoutExpired
Sigterm == 0 - 15      \* exit status of a process ended by terminate()

Heights == {h * 50 : h \in 0..MaxHeightIdx}
\* verificationprogress, in 1/10000ths
ProgressVals == {5000, 10000}
ExitCodes == {0, 1}

TimeHeightLists == {<<>>, <<100>>, <<100, 200>>, <<200, 100>>}

\* the benchmark classes by what their client's data directory is: "ibd"
\* (IbdLocal, IbdReal) an emptied workdir/data, "range" (IbdRangeLocal) a
\* copy of src_datadir in workdir/data, "reindex" (Reindex,
\* ReindexChainstate) src_datadir itself
Configs ==
    [time_heights : TimeHeightLists,
     end_height : {0, 250},          \* 0: end_height is None
     start_height : {0, 100},
     peer : {"none", "local"},       \* "local": a synced peer without address
     stash : {"none", "stash", "src"},
     kind : {"ibd"}]
    \cup
    [time_heights : {<<>>, <<100>>},
     end_height : {0, 250},
     start_height : {0},
     peer : {"none"},
     stash : {"none", "stash", "src"},
     kind : {"range", "reindex"}]


(***************************************************************************)
(* Nodes and their processes (runner/bitcoind.py, runner/sh.py).           *)
(* os/code are the operating system's view of the spawned process;         *)
(* returncode is Popen.returncode, which only poll() and wait() set.       *)
(***************************************************************************)
NewNode == [started |-> FALSE, os |-> "none", code |-> None, returncode |-> None]

\* Node.start: sh.Command(run_cmd).start() spawns the process
Started(n) == [n EXCEPT !.started = TRUE, !.os = "running"]

\* faulty variant: the exit status reaches Popen.returncode by itself
ExitedAndRecorded(n, c) ==
    [n EXCEPT !.os = "exited", !.code = c, !.returncode = c]

\* the process ends by itself with exit status c
Exited(n, c) == [n EXCEPT !.os = "exited", !.code = c]

\* Popen.poll(): record the exit status if the process has ended
Polled(n) == IF n.os = "exited" THEN [n EXCEPT !.returncode = n.code] ELSE n

\* Node.is_process_alive, evaluated after the poll it makes
IsProcessAlive(n) == Polled(n).returncode = None

\* What stop_via_rpc(timeout) can end with: the exit status the process ends
\* with within the timeout, or TimedOut when it is still running after it.
StopOutcomes(n) ==
    IF n.os = "running" THEN ExitCodes \cup {TimedOut} ELSE {n.code}

\* faulty variant: the stop request is sent and the process is not joined
StopViaRpcNoJoin(n, out) == n

\* Node.stop_via_rpc: call_rpc("stop") then cmd.join(timeout)
StopViaRpc(n, out) ==
    IF out = TimedOut THEN n
    ELSE [n EXCEPT !.os = "exited", !.code = out, !.returncode = out]

\* Node.call_rpc: None unless bitcoin-cli exits with 0, which takes a
\* running daemon that answers
RpcFails(n, answers) == ~(n.os = "running" /\ answers)

\* Node.terminate then Node.join, as the shutdown handler calls them
TerminateAndJoin(n) ==
    IF n.os = "running"
    THEN [n EXCEPT !.os = "exited", !.code = Sigterm, !.returncode = Sigterm]
    ELSE [n EXCEPT !.returncode = n.code]

\* main._get_shutdown_handler: the loop over Node.all_instances
\* faulty variant: "is not None" in place of "is None"
HandlerTerminatesExited(n) == n.started /\ n.returncode # None

\* "if node.ps and node.ps.returncode is None"
HandlerTerminates(n) == n.started /\ n.returncode = None

ShutdownNodes(nodes) ==
    [i \in DOMAIN nodes |->
        IF HandlerTerminates(nodes[i]) THEN TerminateAndJoin(nodes[i]) ELSE nodes[i]]

(***************************************************************************)
(* The checkpoint drains of _IbdBench._run.                                *)
(***************************************************************************)
\* faulty variant: an "if" in place of the "while", one head at most
DrainCountIf(hs, h) == IF hs # <<>> /\ Head(hs) <= h THEN 1 ELSE 0

RECURSIVE DrainCount(_, _)
\* how many heads the "while heights and heights[0] <= last_height_seen" pops
DrainCount(hs, h) ==
    IF hs # <<>> /\ Head(hs) <= h THEN 1 + DrainCount(Tail(hs), h) ELSE 0

RECURSIVE DrainReports(_, _, _)
\* the report_result calls of popping the first n heights, with value t
DrainReports(hs, n, t) ==
    IF n = 0 THEN <<>>
    ELSE <<[name |-> Head(hs), metric |-> "time", val |-> t],
           [name |-> Head(hs), metric |-> "mem-usage", val |-> 0]>>
         \o DrainReports(Tail(hs), n - 1, t)

RECURSIVE DropN(_, _)
DropN(hs, n) == IF n = 0 THEN hs ELSE DropN(Tail(hs), n - 1)

\* "tip" is reported under this name
TipName == 0 - 1

\* faulty variant: the end height is not looked at
LoopEndsAtTip(h, p) == p > 9999

\* the loop's end test: (end_height and height >= end_height) or progress > 0.9999
LoopEnds(h, p) == (cfg.end_height # 0 /\ h >= cfg.end_height) \/ p > 9999

\* "tail -n 10000"
TAIL_LINES == 10000

\* where the last disk-low marker of debug.log can be, in lines from the end
MarkerAges == {None, 1, TAIL_LINES, TAIL_LINES + 1}

\* Node.check_disk_low: tail -n 10000 debug.log | grep 'Disk space is low!'
CheckDiskLow(age) == age # None /\ age <= TAIL_LINES

\* faulty variant: only the exit code is looked at
IbdFailedByExitCode(rc, disk_low) == rc # 0

\* "client_node.ps.returncode != 0 or client_node.check_disk_low()"
IbdFailed(rc, disk_low) == rc # 0 \/ disk_low

\* "progress > 0.999 and not bench_cfg.end_height"
ReportsTip(p) == p > 9990 /\ cfg.end_height = 0

\* faulty variant: teardown after the try block instead of in "finally"
AfterRunNoFinally(exc) == IF exc = "none" THEN "teardown" ELSE "raised"

\* Benchmark.run: where control goes when _run has returned or raised
\* (try / finally: self._teardown())
AfterRun(exc) == "teardown"

\* faulty variant: a new height is put in front
DictSetFirst(d, k, v) ==
    IF \E i \in DOMAIN d : d[i].height = k
    THEN [i \in DOMAIN d |->
             IF d[i].height = k THEN [height |-> k, time_secs |-> v] ELSE d[i]]
    ELSE <<[height |-> k, time_secs |-> v]>> \o d

\* height_to_data[k] = HeightData(v, ...): a dict keeps its keys in the
\* order of their first insertion
DictSet(d, k, v) ==
    IF \E i \in DOMAIN d : d[i].height = k
    THEN [i \in DOMAIN d |->
             IF d[i].height = k THEN [height |-> k, time_secs |-> v] ELSE d[i]]
    ELSE Append(d, [height |-> k, time_secs |-> v])

Client == all_instances[client_node]
Server == all_instances[server_node]

SetNode(i, n) == [all_instances EXCEPT ![i] = n]

runVars == <<last_height_seen, progress, start_time, time_now,
             report_to_codespeed_heights, reported, total_time_secs,
             run_result, observed, height_to_data, server_blocks,
             client_headers, marker_age>>

\* _run is left by an exception
Raise(exc) ==
    /\ run_exc' = exc
    /\ run_result' = "raised"
    /\ pc' = AfterRun(exc)

(***************************************************************************)
(* Init: a process about to call Benchmark.run for the first time.         *)
(***************************************************************************)
InitIbd ==
    /\ cfg \in Configs
    /\ pc = "start"
    /\ all_instances = <<>>
    /\ server_node = 0
    /\ client_node = 0
    /\ last_height_seen = None
    /\ progress = None
    /\ start_time = None
    /\ time_now = None
    /\ now = 1
    /\ report_to_codespeed_heights = <<>>
    /\ reported = <<>>
    /\ total_time_secs = None
    /\ run_result = "none"
    /\ run_exc = "none"
    /\ teardown_exc = "none"
    /\ teardown_calls = 0
    /\ datadir = "absent"
    /\ observed = <<>>
    /\ height_to_data = <<>>
    /\ server_blocks = None
    /\ client_headers = None
    /\ marker_age = None
    /\ src_datadir = IF cfg.kind = "ibd" THEN "none" ELSE "present"

InitLockIdle ==
    /\ lockfile = FALSE
    /\ lpc = [p \in 1..NumProcs |-> "idle"]
    /\ lockfile_held = [p \in 1..NumProcs |-> FALSE]
    /\ acquired = [p \in 1..NumProcs |-> FALSE]
    /\ removals = [p \in 1..NumProcs |-> 0]

\* A built tree: the target it was built from (0: not built) and what its
\* binaries' "-version" line holds of the checkout: sha[:7], ref
NoMatch == [commit |-> 0, has_sha |-> FALSE, has_ref |-> FALSE]

\* what build gives its caller: an exception, None, or the make Command
NoCall == [kind |-> "none", returncode |-> None]

InitCacheIdle ==
    /\ cachedir = <<>>
    /\ repo = NoMatch
    /\ cache_path = FALSE
    /\ build_ret = "none"
    /\ build_key = 0
    /\ build_val = NoCall
    /\ deleted = <<>>
    /\ clock = 0

\* the outcome of a resolve_targets call not made yet
NoResult == [kind |-> "none", checkouts |-> <<>>, bad |-> <<>>,
             rebase_ok |-> TRUE]

InitGitIdle ==
    /\ to_bench = <<>>
    /\ gitco = <<>>
    /\ head = 0
    /\ rt = NoResult
    /\ rt_first = NoResult
    /\ calls = 0

InitSuiteIdle ==
    /\ benches = {}
    /\ spc = "idle"
    /\ ran = 0
    /\ last_run = "none"

\* no wait_for_init call under way
InitWaitIdle ==
    /\ wpc = "idle"
    /\ wnode = NewNode
    /\ require_height = 0
    /\ num_tries = 0
    /\ bitcoind_up = FALSE
    /\ block_count = None
    /\ stop_accepted = FALSE

\* what call_rpc gives when the call failed
NoInfo == [ok |-> FALSE, blocks |-> None, verificationprogress |-> None]

\* no poll under way
InitPollIdle ==
    /\ ppc = "idle"
    /\ tries_left = 0
    /\ info = NoInfo
    /\ poll_ret = <<None, None>>
    /\ failed = 0
    /\ polls = 0
    /\ nstate = "syncing"

\* no log being read
InitLogIdle ==
    /\ log = <<>>
    /\ lgpc = "idle"
    /\ log_start = None
    /\ times = <<>>
    /\ lineno = 0

\* no resource sample under way
InitUsageIdle ==
    /\ ptree = <<>>
    /\ cmd_daemon = FALSE
    /\ upc = "idle"
    /\ uproc = 0

InitAuxIdle == InitWaitIdle /\ InitPollIdle /\ InitLogIdle /\ InitUsageIdle

InitHarnessIdle == InitGitIdle /\ InitSuiteIdle /\ InitAuxIdle

\* a process that runs no benchmark
IdleCfg == [time_heights |-> <<>>, end_height |-> 0, start_height |-> 0,
            peer |-> "none", stash |-> "none", kind |-> "ibd"]

IbdIdleButCfg ==
    /\ pc = "idle"
    /\ all_instances = <<>>
    /\ server_node = 0
    /\ client_node = 0
    /\ last_height_seen = None
    /\ progress = None
    /\ start_time = None
    /\ time_now = None
    /\ now = 1
    /\ report_to_codespeed_heights = <<>>
    /\ reported = <<>>
    /\ total_time_secs = None
    /\ run_result = "none"
    /\ run_exc = "none"
    /\ teardown_exc = "none"
    /\ teardown_calls = 0
    /\ datadir = "absent"
    /\ observed = <<>>
    /\ height_to_data = <<>>
    /\ server_blocks = None
    /\ client_headers = None
    /\ marker_age = None
    /\ src_datadir = "none"

IbdIdle == cfg = IdleCfg /\ IbdIdleButCfg

Init == InitIbd /\ InitLockIdle /\ InitCacheIdle /\ InitHarnessIdle

(***************************************************************************)
(* _IbdBench._get_server_node (benchmarks.py 312-324) through              *)
(* bitcoind.get_synced_node (bitcoind.py 334-386).  The call either        *)
(* raises before a Node exists, raises from wait_for_init after the Node   *)
(* was constructed and started, or returns the started server.             *)
(* The call at benchmarks.py 323 passes one argument where the function    *)
(* takes two (cfg, peer_config), which is a TypeError before any Node      *)
(* exists; the outcomes of the function body are kept beside it, as they   *)
(* are for a call that supplies both.                                      *)
(***************************************************************************)
GetServerNode ==
    /\ pc = "start"
    /\ UNCHANGED <<lockVars, cacheVars, harnessVars>>
    /\ UNCHANGED src_datadir
    /\ UNCHANGED <<observed, height_to_data, server_blocks, client_headers,
                   marker_age>>
    /\ UNCHANGED <<cfg, client_node, last_height_seen, progress,
                   start_time, time_now, now, report_to_codespeed_heights,
                   reported, total_time_secs, teardown_exc, teardown_calls,
                   datadir>>
    /\ IF cfg.peer # "local"
       THEN /\ pc' = "get_client"
            /\ UNCHANGED <<all_instances, server_node, run_exc, run_result>>
       ELSE \E out \in {"raise_early", "raise_not_up", "raise_died", "ok"} :
            CASE out = "raise_early" ->
                    /\ Raise("TypeError")
                    /\ UNCHANGED <<all_instances, server_node>>
              [] out = "raise_not_up" ->
                    /\ Raise("RuntimeError")
                    /\ all_instances' = Append(all_instances, Started(NewNode))
                    /\ UNCHANGED server_node
              [] out = "raise_died" ->
                    /\ Raise("RuntimeError")
                    /\ all_instances' =
                          Append(all_instances, Polled(Exited(Started(NewNode), 1)))
                    /\ UNCHANGED server_node
              [] out = "ok" ->
                    /\ all_instances' = Append(all_instances, Started(NewNode))
                    /\ server_node' = Len(all_instances) + 1
                    /\ pc' = "get_client"
                    /\ UNCHANGED <<run_exc, run_result>>

(***************************************************************************)
(* _get_client_node (benchmarks.py 615-636, 647-671, ...): Node(...) may   *)
(* raise (port search, seeding the datadir); once constructed the Node is  *)
(* assigned to self.client_node before start() is reached.                 *)
(***************************************************************************)
GetClientNode ==
    /\ pc = "get_client"
    /\ UNCHANGED <<lockVars, cacheVars, harnessVars>>
    /\ UNCHANGED src_datadir
    /\ UNCHANGED <<observed, height_to_data, server_blocks, client_headers,
                   marker_age>>
    /\ UNCHANGED <<cfg, server_node, last_height_seen, progress,
                   start_time, time_now, now, report_to_codespeed_heights,
                   reported, total_time_secs, teardown_exc, teardown_calls>>
    /\ \E out \in {"ctor_raise", "start_raise", "ok"} :
         CASE out = "ctor_raise" ->
                 /\ Raise("Error")
                 /\ UNCHANGED <<all_instances, client_node, datadir>>
           [] out = "start_raise" ->
                 /\ Raise("Error")
                 /\ all_instances' = Append(all_instances, NewNode)
                 /\ client_node' = Len(all_instances) + 1
                 /\ datadir' = "present"
           [] out = "ok" ->
                 /\ all_instances' = Append(all_instances, Started(NewNode))
                 /\ client_node' = Len(all_instances) + 1
                 /\ datadir' = "present"
                 /\ pc' = "wait_for_init"
                 /\ UNCHANGED <<run_exc, run_result>>

(***************************************************************************)
(* client_node.wait_for_init() and the server/client chain checks          *)
(* (benchmarks.py 354-393, bitcoind.py 170-217).                           *)
(***************************************************************************)
\* what the two getblockchaininfo calls before the loop can give (None: the
\* call failed)
ServerBlocks == {None, 200, 300}
ClientHeaders == {None, 100, 300}

\* faulty variant: the client's headers are not looked at
ChainChecksNoHeaders(sb, ch, end) ==
    IF sb = None \/ ch = None THEN "TypeError"
    ELSE IF end = 0 THEN "TypeError"
    ELSE IF sb < end THEN "RuntimeError"
    ELSE "ok"

\* "if self.server_node:" (benchmarks.py 362-386): the exception the checks
\* end with, "ok" when they pass; end = 0 stands for end_height None
ChainChecks(sb, ch, end) ==
    IF sb = None \/ ch = None THEN "TypeError"      \* None["blocks"]
    ELSE IF end = 0 THEN "TypeError"                \* server_blocks < None
    ELSE IF sb < end THEN "RuntimeError"
    ELSE IF sb <= ch THEN "RuntimeError"
    ELSE "ok"

WaitForInit ==
    /\ pc = "wait_for_init"
    /\ UNCHANGED <<lockVars, cacheVars, harnessVars>>
    /\ UNCHANGED src_datadir
    /\ UNCHANGED <<observed, height_to_data, marker_age>>
    /\ UNCHANGED <<cfg, server_node, client_node, progress, start_time,
                   time_now, now, reported, total_time_secs, teardown_exc,
                   teardown_calls, datadir>>
    /\ IF Client.os = "exited"
       THEN \* "if not self.is_process_alive: self.cmd.join(); raise"
            /\ Raise("RuntimeError")
            /\ all_instances' = SetNode(client_node, Polled(Client))
            /\ UNCHANGED <<last_height_seen, report_to_codespeed_heights,
                           server_blocks, client_headers>>
       ELSE \E up \in BOOLEAN, h \in {0, 100}, sb \in ServerBlocks,
               ch \in ClientHeaders :
            LET chk == IF server_node = 0 THEN "ok"
                       ELSE ChainChecks(sb, ch, cfg.end_height)
            IN
            IF ~up
            THEN \* no answer in 600 tries
                 /\ Raise("RuntimeError")
                 /\ UNCHANGED <<all_instances, last_height_seen,
                                report_to_codespeed_heights, server_blocks,
                                client_headers>>
            ELSE /\ server_blocks' = IF server_node = 0 THEN None ELSE sb
                 /\ client_headers' = IF server_node = 0 THEN None ELSE ch
                 /\ IF chk # "ok"
                    THEN \* a chain check failed
                         /\ Raise(chk)
                         /\ last_height_seen' = h
                         /\ UNCHANGED <<all_instances,
                                        report_to_codespeed_heights>>
                    ELSE /\ last_height_seen' = h
                         /\ report_to_codespeed_heights' = cfg.time_heights
                         /\ pc' = "loop"
                         /\ UNCHANGED <<all_instances, run_exc, run_result>>


(***************************************************************************)
(* One iteration of the polling loop (benchmarks.py 400-480), in the three *)
(* steps between which the daemon may end: the status query with the end   *)
(* and start-height tests (401-433), the resource sample (435-437) and the *)
(* checkpoint drain (444-480).                                             *)
(***************************************************************************)
Latch(t) == IF start_time # None THEN start_time ELSE t

Poll ==
    /\ pc = "loop"
    /\ UNCHANGED <<lockVars, cacheVars, harnessVars>>
    /\ UNCHANGED src_datadir
    /\ UNCHANGED <<height_to_data, server_blocks, client_headers, marker_age>>
    /\ now < MaxTime
    /\ UNCHANGED <<cfg, all_instances, server_node, client_node, time_now,
                   report_to_codespeed_heights, reported, total_time_secs,
                   teardown_exc, teardown_calls, datadir>>
    /\ IF Client.returncode # None
       THEN \* "node process died": break
            /\ pc' = "finalize"
            /\ UNCHANGED <<last_height_seen, progress, start_time, now,
                           run_exc, run_result, observed>>
       ELSE \E answers \in BOOLEAN, h \in Heights, p \in ProgressVals :
            /\ h >= last_height_seen
            /\ now' = now + 1
            /\ IF RpcFails(Client, answers)
               THEN \* poll_for_height_and_progress gave (None, None)
                    /\ Raise("RuntimeError")
                    /\ last_height_seen' = None
                    /\ progress' = None
                    /\ UNCHANGED <<start_time, observed>>
               ELSE /\ last_height_seen' = h
                    /\ progress' = p
                    /\ observed' = Append(observed,
                          [height |-> h, progress |-> p, at |-> now + 1])
                    /\ UNCHANGED <<run_exc, run_result>>
                    /\ IF LoopEnds(h, p)
                       THEN /\ start_time' = Latch(now + 1)
                            /\ pc' = "finalize"
                       ELSE IF h < cfg.start_height
                       THEN \* sleep(0.5); continue
                            UNCHANGED <<pc, start_time>>
                       ELSE /\ pc' = "sample"
                            /\ UNCHANGED start_time

\* faulty variant: a sample that never notices the process is gone
ResourceUsageNeverRaises(n) == FALSE

\* Command.get_resource_usage (sh.py 157-190) raises when the process is gone
ResourceUsageRaises(n) == n.os # "running"

Sample ==
    /\ pc = "sample"
    /\ UNCHANGED <<lockVars, cacheVars, harnessVars>>
    /\ UNCHANGED src_datadir
    /\ UNCHANGED <<observed, height_to_data, server_blocks, client_headers,
                   marker_age>>
    /\ UNCHANGED <<cfg, all_instances, server_node, client_node,
                   last_height_seen, progress, now,
                   report_to_codespeed_heights, reported, total_time_secs,
                   teardown_exc, teardown_calls, datadir>>
    /\ start_time' = Latch(now)
    /\ time_now' = now - Latch(now)
    /\ IF ResourceUsageRaises(Client)
       THEN Raise("Error")
       ELSE /\ pc' = "drain"
            /\ UNCHANGED <<run_exc, run_result>>

Drain ==
    /\ pc = "drain"
    /\ UNCHANGED <<lockVars, cacheVars, harnessVars>>
    /\ UNCHANGED src_datadir
    /\ UNCHANGED <<observed, server_blocks, client_headers, marker_age>>
    /\ UNCHANGED <<cfg, all_instances, server_node, client_node,
                   last_height_seen, progress, start_time, time_now, now,
                   total_time_secs, teardown_exc, teardown_calls, datadir>>
    /\ LET n == DrainCount(report_to_codespeed_heights, last_height_seen)
       IN IF n > 0 /\ ResourceUsageRaises(Client)
          THEN \* the time is reported, then memusage_kib raises
               /\ Raise("Error")
               /\ report_to_codespeed_heights' = Tail(report_to_codespeed_heights)
               /\ reported' = Append(reported,
                     [name |-> Head(report_to_codespeed_heights),
                      metric |-> "time", val |-> time_now])
               /\ UNCHANGED height_to_data
          ELSE /\ height_to_data' =
                     DictSet(height_to_data, last_height_seen, time_now)
               /\ report_to_codespeed_heights' =
                     DropN(report_to_codespeed_heights, n)
               /\ reported' = reported \o
                     DrainReports(report_to_codespeed_heights, n, time_now)
               /\ pc' = "loop"
               /\ UNCHANGED <<run_exc, run_result>>

(***************************************************************************)
(* After the loop (benchmarks.py 482-553): final time, shutdown of the     *)
(* client, the failure test, the drain of the remaining checkpoints, the   *)
(* tip measurement and the result totals.                                  *)
(***************************************************************************)
Finalize ==
    /\ pc = "finalize"
    /\ UNCHANGED <<lockVars, cacheVars, harnessVars>>
    /\ UNCHANGED src_datadir
    /\ UNCHANGED <<observed, server_blocks, client_headers>>
    /\ UNCHANGED <<cfg, server_node, client_node, last_height_seen, progress,
                   start_time, time_now, teardown_exc, teardown_calls, datadir>>
    /\ now' = now + 1
    /\ IF start_time = None
       THEN \* time.time() - None
            /\ Raise("TypeError")
            /\ UNCHANGED <<all_instances, report_to_codespeed_heights, reported,
                           total_time_secs, height_to_data, marker_age>>
       ELSE IF Client.returncode # None
       THEN \* client_node.ps.join(): Popen has no join
            /\ Raise("AttributeError")
            /\ UNCHANGED <<all_instances, report_to_codespeed_heights, reported,
                           total_time_secs, height_to_data, marker_age>>
       ELSE \E out \in StopOutcomes(Client), age \in MarkerAges :
            LET final_time == now - start_time
                disk_low == CheckDiskLow(age)
                n == DrainCount(report_to_codespeed_heights, last_height_seen)
                t == IF time_now = None THEN 0 ELSE time_now
                tip == IF ReportsTip(progress)
                       THEN <<[name |-> TipName, metric |-> "time",
                               val |-> final_time],
                              [name |-> TipName, metric |-> "mem-usage",
                               val |-> 0]>>
                       ELSE <<>>
            IN
            /\ all_instances' = SetNode(client_node, StopViaRpc(Client, out))
            /\ IF out = TimedOut
               THEN /\ Raise("TimeoutExpired")
                    /\ UNCHANGED <<report_to_codespeed_heights, reported,
                                   total_time_secs, height_to_data, marker_age>>
               ELSE IF IbdFailed(out, disk_low)
               THEN \* "IBD failed": return False
                    /\ marker_age' = age
                    /\ run_result' = "failed"
                    /\ pc' = AfterRun("none")
                    /\ UNCHANGED <<run_exc, report_to_codespeed_heights, reported,
                                   total_time_secs, height_to_data>>
               ELSE /\ marker_age' = age
                    /\ report_to_codespeed_heights' =
                          DropN(report_to_codespeed_heights, n)
                    /\ reported' = reported
                          \o DrainReports(report_to_codespeed_heights, n, t)
                          \o tip
                    /\ total_time_secs' = final_time
                    /\ height_to_data' =
                          \* "if last_resource_usage:": a sample was taken
                          IF time_now # None
                          THEN DictSet(height_to_data, last_height_seen,
                                       final_time)
                          ELSE height_to_data
                    /\ run_result' = "completed"
                    /\ pc' = AfterRun("none")
                    /\ UNCHANGED run_exc

(***************************************************************************)
(* _IbdBench._teardown (benchmarks.py 565-609), called from the finally    *)
(* clause of Benchmark.run (99-117), which then returns or re-raises.      *)
(***************************************************************************)
\* "if not self.client_node: return"
TeardownReturnsEarly == client_node = 0

\* what teardown does to the working data directory
DatadirAfter(stash, d) ==
    CASE stash = "src" -> d          \* src_datadir == stash_datadir: return
      [] stash = "stash" -> "stashed"  \* shutil.move(datadirpath, stash_datadir)
      [] OTHER -> "removed"          \* shutil.rmtree(datadirpath)

RunLeaves(exc) == IF exc # "none" THEN "raised" ELSE "returned"

Teardown ==
    /\ pc = "teardown"
    /\ UNCHANGED <<lockVars, cacheVars, harnessVars>>
    /\ UNCHANGED <<cfg, server_node, client_node, runVars, run_exc, now>>
    /\ teardown_calls' = teardown_calls + 1
    /\ IF TeardownReturnsEarly
       THEN /\ teardown_exc' = "none"
            /\ pc' = RunLeaves(run_exc)
            /\ UNCHANGED <<all_instances, datadir>>
       ELSE IF ~Client.started
       THEN \* is_process_alive: self.ps is None
            /\ teardown_exc' = "AttributeError"
            /\ pc' = "raised"
            /\ UNCHANGED <<all_instances, datadir>>
       ELSE \E cout \in StopOutcomes(Client) :
            LET alive == IsProcessAlive(Client)
                c1 == IF alive THEN StopViaRpc(Client, cout) ELSE Polled(Client)
                nodes1 == SetNode(client_node, c1)
            IN
            IF alive /\ cout = TimedOut
            THEN /\ teardown_exc' = "TimeoutExpired"
                 /\ pc' = "raised"
                 /\ all_instances' = nodes1
                 /\ UNCHANGED datadir
            ELSE IF server_node = 0
            THEN /\ teardown_exc' = "none"
                 /\ pc' = RunLeaves(run_exc)
                 /\ all_instances' = nodes1
                 /\ datadir' = DatadirAfter(cfg.stash, datadir)
            ELSE \E sout \in StopOutcomes(Server) :
                 /\ all_instances' =
                       [nodes1 EXCEPT ![server_node] = StopViaRpc(Server, sout)]
                 /\ IF sout = TimedOut
                    THEN /\ teardown_exc' = "TimeoutExpired"
                         /\ pc' = "raised"
                         /\ UNCHANGED datadir
                    ELSE /\ teardown_exc' = "none"
                         /\ pc' = RunLeaves(run_exc)
                         /\ datadir' = DatadirAfter(cfg.stash, datadir)
    \* the data directory of a reindex node is src_datadir itself
    /\ src_datadir' = IF cfg.kind = "reindex" /\ datadir' # datadir
                      THEN datadir' ELSE src_datadir

(***************************************************************************)
(* The environment: a daemon process ends by itself; the user interrupts   *)
(* the harness (KeyboardInterrupt raised inside _run).                     *)
(***************************************************************************)
InRun == pc \in {"get_client", "wait_for_init", "loop", "sample", "drain",
                "finalize"}

NodeDies ==
    /\ InRun
    /\ UNCHANGED <<lockVars, cacheVars, harnessVars>>
    /\ UNCHANGED src_datadir
    /\ \E i \in DOMAIN all_instances, c \in ExitCodes :
         /\ all_instances[i].os = "running"
         /\ all_instances' = SetNode(i, Exited(all_instances[i], c))
    /\ UNCHANGED <<cfg, pc, server_node, client_node, runVars, run_exc, now,
                   teardown_exc, teardown_calls, datadir>>

Interrupt ==
    /\ InRun
    /\ UNCHANGED <<lockVars, cacheVars, harnessVars>>
    /\ UNCHANGED src_datadir
    /\ UNCHANGED <<observed, height_to_data, server_blocks, client_headers,
                   marker_age>>
    /\ Raise("KeyboardInterrupt")
    /\ UNCHANGED <<cfg, all_instances, server_node, client_node,
                   last_height_seen, progress, start_time, time_now, now,
                   report_to_codespeed_heights, reported, total_time_secs,
                   teardown_exc, teardown_calls, datadir>>

(***************************************************************************)
(* main._get_shutdown_handler (main.py 170-195), registered with atexit:   *)
(* runs when the process exits, after Benchmark.run was left.              *)
(***************************************************************************)
ShutdownHandler ==
    /\ pc \in {"returned", "raised"}
    /\ UNCHANGED <<lockVars, cacheVars, harnessVars>>
    /\ UNCHANGED src_datadir
    /\ all_instances' = ShutdownNodes(all_instances)
    /\ pc' = "exited"
    /\ UNCHANGED <<cfg, server_node, client_node, runVars, run_exc, now,
                   teardown_exc, teardown_calls, datadir>>

Next ==
    \/ GetServerNode
    \/ GetClientNode
    \/ WaitForInit
    \/ Poll
    \/ Sample
    \/ Drain
    \/ Finalize
    \/ Teardown
    \/ NodeDies
    \/ Interrupt
    \/ ShutdownHandler

Spec == Init /\ [][Next]_vars


(***************************************************************************)
(* Properties of one benchmark execution.                                  *)
(***************************************************************************)
IsTime(r) == r.metric = "time"
IsCheckpoint(r) == r.name # TipName
TimeReports == SelectSeq(reported, IsTime)
CheckpointTimes == SelectSeq(TimeReports, IsCheckpoint)
Names(seq) == [i \in DOMAIN seq |-> seq[i].name]
NonDecreasing(seq) ==
    \A i, j \in DOMAIN seq : i < j => seq[i].val <= seq[j].val

\* checkpoints [100, 200], end height 250, the node seen at 250, exit code 0
\* and no disk-low marker
C1_Case ==
    /\ cfg.time_heights = <<100, 200>>
    /\ cfg.end_height = 250
    /\ run_result = "completed"
    /\ last_height_seen >= 250

\* C1 (as stated): in that case _run reports exactly two checkpoint times, for
\* 100 and 200, plus one final/tip time, with non-decreasing elapsed values.
C1_TwoCheckpointsAndTip ==
    C1_Case =>
        /\ Names(TimeReports) = <<100, 200, TipName>>
        /\ NonDecreasing(TimeReports)

\* C1 (amended): in that case _run reports exactly two checkpoint times, for
\* 100 then 200, with non-decreasing elapsed values, and no tip measurement:
\* with an end height configured the final time goes to total_time_secs only.
C1_TwoCheckpointsNoTip ==
    C1_Case =>
        /\ Names(TimeReports) = <<100, 200>>
        /\ NonDecreasing(TimeReports)
        /\ Len(reported) = 4
        /\ total_time_secs # None
        /\ \A i \in DOMAIN TimeReports : TimeReports[i].val <= total_time_secs

C1_Witness ==
    /\ C1_Case
    /\ pc = "returned"
    /\ Len(TimeReports) = 2
    /\ TimeReports[1].val < TimeReports[2].val

\* the client process has ended with a non-zero code and the execution has
\* not completed
ExitedEarly ==
    /\ client_node # 0
    /\ Client.os = "exited"
    /\ Client.code # 0
    /\ run_result # "completed"

C2_PendingTime ==
    /\ pc = "drain"
    /\ report_to_codespeed_heights # <<>>
    /\ Head(report_to_codespeed_heights) <= last_height_seen
    /\ reported' = Append(reported,
          [name |-> Head(report_to_codespeed_heights), metric |-> "time",
           val |-> time_now])
    /\ run_result' = "raised"

C3_AscendingExactlyOnce ==
    run_result = "completed" =>
        LET names == Names(CheckpointTimes) IN
        /\ \A i, j \in DOMAIN names : i < j => names[i] < names[j]
        /\ \A k \in DOMAIN cfg.time_heights :
              cfg.time_heights[k] <= last_height_seen =>
                 Cardinality({i \in DOMAIN names :
                                 names[i] = cfg.time_heights[k]}) = 1

IsAscending(hs) == \A i, j \in DOMAIN hs : i < j => hs[i] < hs[j]

\* the same for lists configured in ascending order
C3_AscendingLists ==
    IsAscending(cfg.time_heights) => C3_AscendingExactlyOnce

ServerStarted ==
    \E i \in DOMAIN all_instances : i # client_node /\ all_instances[i].started

Procs == 1..NumProcs

InitLock ==
    /\ IbdIdle
    /\ InitHarnessIdle
    /\ InitCacheIdle
    /\ lockfile = FALSE
    /\ lpc = [p \in Procs |-> "idle"]
    /\ lockfile_held = [p \in Procs |-> FALSE]
    /\ acquired = [p \in Procs |-> FALSE]
    /\ removals = [p \in Procs |-> 0]

\* the process is started and reaches _try_acquire_lockfile
StartProcess(p) ==
    /\ lpc[p] = "idle"
    /\ lpc' = [lpc EXCEPT ![p] = "check"]
    /\ UNCHANGED <<lockfile, lockfile_held, acquired, removals>>
    /\ UNCHANGED <<ibdVars, cacheVars, harnessVars>>

\* "if LOCKFILE_PATH.exists(): return False", and then the RuntimeError of
\* _startup_assertions
CheckExists(p) ==
    /\ lpc[p] = "check"
    /\ lpc' = [lpc EXCEPT ![p] = IF lockfile THEN "failed" ELSE "open"]
    /\ UNCHANGED <<lockfile, lockfile_held, acquired, removals>>
    /\ UNCHANGED <<ibdVars, cacheVars, harnessVars>>

\* "with LOCKFILE_PATH.open('w') as f: f.write(..)", "G.lockfile_held = True"
OpenAndWrite(p) ==
    /\ lpc[p] = "open"
    /\ lockfile' = TRUE
    /\ lockfile_held' = [lockfile_held EXCEPT ![p] = TRUE]
    /\ acquired' = [acquired EXCEPT ![p] = TRUE]
    /\ lpc' = [lpc EXCEPT ![p] = "running"]
    /\ UNCHANGED <<removals, ibdVars, cacheVars, harnessVars>>

\* the except clause of main (645-655), where an exception leaving cli.run
\* arrives: that of a failed acquisition or one raised while benchmarking.
\* unlink() of a file that is gone raises FileNotFoundError, which leaves
\* the clause before G.lockfile_held is reset.
MainExcept(p) ==
    /\ lpc[p] \in {"running", "failed"}
    /\ lpc' = [lpc EXCEPT ![p] = "raising"]
    /\ IF lockfile_held[p] /\ lockfile
       THEN /\ lockfile' = FALSE
            /\ removals' = [removals EXCEPT ![p] = @ + 1]
            /\ lockfile_held' = [lockfile_held EXCEPT ![p] = FALSE]
       ELSE UNCHANGED <<lockfile, removals, lockfile_held>>
    /\ UNCHANGED <<acquired, ibdVars, cacheVars, harnessVars>>

\* the shutdown handler (177-180), run as the process exits, after a normal
\* completion or after main has re-raised: unlink if held
ReleaseLockfile(p) ==
    /\ lpc[p] \in {"running", "raising"}
    /\ lpc' = [lpc EXCEPT ![p] = "done"]
    /\ IF lockfile_held[p] /\ lockfile
       THEN /\ lockfile' = FALSE
            /\ removals' = [removals EXCEPT ![p] = @ + 1]
       ELSE UNCHANGED <<lockfile, removals>>
    /\ UNCHANGED <<lockfile_held, acquired, ibdVars, cacheVars, harnessVars>>

NextLock ==
    \/ \E p \in Procs : StartProcess(p)
    \/ \E p \in Procs : CheckExists(p)
    \/ \E p \in Procs : OpenAndWrite(p)
    \/ \E p \in Procs : MainExcept(p)
    \/ \E p \in Procs : ReleaseLockfile(p)

SpecLock == InitLock /\ [][NextLock]_vars

Holders == {p \in Procs : lpc[p] = "running" /\ lockfile_held[p]}

\* C6 (as stated): in any interleaving at most one process has acquired the
\* lockfile and runs; the others have failed their startup assertions.
C6_AtMostOneHolder == Cardinality(Holders) <= 1

\* C37 (as stated): a process removes the lockfile only if it has acquired
\* it, never more than once, and exactly once by the time it has exited,
\* whether cli.run returned or raised; a process that failed to acquire it
\* removes nothing.
C37_RemovedOnceByHolder ==
    \A p \in Procs :
        /\ ~acquired[p] => removals[p] = 0
        /\ removals[p] <= 1
        /\ (lpc[p] = "done" /\ acquired[p]) => removals[p] = 1


(***************************************************************************)
(* The build cache (bitcoind.py 406-592).  An entry is a copy of a built   *)
(* source tree; what matters of it is its modification time and what its   *)
(* binaries (bitcoind and bitcoin-cli, built together) report as their     *)
(* version.  Entry names stand for cache keys target.cache_key(compiler),  *)
(* one per (target, compiler) pair.                                        *)
(***************************************************************************)
CACHE_SIZE == 5

Keys == 1..MaxKeys

CacheKey(k) == k

\* The version a build of key k reports: a build from a commit names the
\* short commit id, a build of a tag names the ref.
TargetVersion(k) ==
    IF k % 2 = 1 THEN [commit |-> k, has_sha |-> TRUE, has_ref |-> FALSE]
    ELSE [commit |-> k, has_sha |-> FALSE, has_ref |-> TRUE]

\* The version line read against the checkout of the call: when the target
\* resolves to another commit than the tree was built from, it holds
\* neither that commit's id nor the ref.
ReadVersion(v, moved) ==
    IF moved THEN [v EXCEPT !.has_sha = FALSE, !.has_ref = FALSE] ELSE v

\* faulty variant: "ref in version" in place of "ref not in version"
AssertVersionRefInverted(v) == ~v.has_sha /\ v.has_ref

\* faulty variant: the check left out
AssertVersionNeverRaises(v) == FALSE

\* _assert_version: "if sha[:7] not in version and ref not in version: raise"
AssertVersionRaises(v) == ~v.has_sha /\ ~v.has_ref

\* glob.glob("{cachedir}/*"): the listing, in one of two directory orders
RECURSIVE Listing(_, _)
Listing(names, rev) ==
    IF names = {} THEN <<>>
    ELSE LET n == IF rev THEN CHOOSE x \in names : \A y \in names : x >= y
                  ELSE CHOOSE x \in names : \A y \in names : x <= y
         IN <<n>> \o Listing(names \ {n}, rev)

\* faulty variant: the sort without reverse=True
SortsBeforeAscending(m1, m2) == m1 < m2

\* sort(key=os.path.getmtime, reverse=True): does key m1 go before key m2
SortsBefore(m1, m2) == m1 > m2

\* stable insertion of name x into a sorted listing
RECURSIVE Insert(_, _, _)
Insert(dir, sorted, x) ==
    IF sorted = <<>> THEN <<x>>
    ELSE IF SortsBefore(dir[x].mtime, dir[Head(sorted)].mtime)
         THEN <<x>> \o sorted
         ELSE <<Head(sorted)>> \o Insert(dir, Tail(sorted), x)

RECURSIVE SortByMtime(_, _)
SortByMtime(dir, listing) ==
    IF listing = <<>> THEN <<>>
    ELSE Insert(dir, SortByMtime(dir, SubSeq(listing, 1, Len(listing) - 1)),
                listing[Len(listing)])

\* faulty variant: the slice one place further
StaleOneFurther(sorted) == SubSeq(sorted, CACHE_SIZE + 2, Len(sorted))

\* files_in_cache[CACHE_SIZE:]
Stale(sorted) == SubSeq(sorted, CACHE_SIZE + 1, Len(sorted))

Range(seq) == {seq[i] : i \in DOMAIN seq}

\* the names BuildCache.clean removes from dir
CleanRemoves(dir, rev) == Range(Stale(SortByMtime(dir, Listing(DOMAIN dir, rev))))

Restrict(dir, names) == [n \in names |-> dir[n]]

\* BuildCache.save: shutil.copytree(repo_path, cache), which raises when the
\* entry exists and copies the tree's modification time with its content
SaveRaises(dir, key) == key \in DOMAIN dir

Save(dir, key, tree, mtime) ==
    [n \in DOMAIN dir \cup {key} |->
        IF n = key THEN [mtime |-> mtime, tree |-> tree] ELSE dir[n]]

\* faulty variant: restore without the copy of the entry
RestoreKeepsTree(dir, key) == repo

\* BuildCache.restore: sh.rm(repo_path); shutil.copytree(cache, repo_path)
Restored(dir, key) == dir[key].tree

Raised == [kind |-> "raised", returncode |-> None]

ReturnsNone == [kind |-> "None", returncode |-> None]

\* faulty variant: the Command returned without cmd.join()
MakeCommandNotJoined(rc) == [kind |-> "Command", returncode |-> None]

\* cmd = sh.Command("make .."); cmd.start(); cmd.join(): exit status rc
MakeCommand(rc) == [kind |-> "Command", returncode |-> rc]

InitCache ==
    /\ IbdIdle
    /\ InitHarnessIdle
    /\ InitLockIdle
    /\ cachedir = <<>>
    /\ repo = NoMatch
    /\ cache_path \in BOOLEAN
    /\ build_ret = "none"
    /\ build_key = 0
    /\ build_val = NoCall
    /\ deleted = <<>>
    /\ clock = 0


(***************************************************************************)
(* BuildManager.build (bitcoind.py 406-513) for the target and compiler of *)
(* cache key k.  The input is how far the call gets: HEAD has another      *)
(* commit message, the target resolves to another commit than the cached   *)
(* entry was built from, configure or make fails, the built binaries       *)
(* report a version without commit id and ref, or all goes well.           *)
(* build_ret records where the call ended:                                 *)
(*   "hit" (return None), "make_failed", "built" (return cmd), or a raise: *)
(*   "bad_head", "restore_raised", "configure_failed", "version_raised",   *)
(*   "save_raised".                                                        *)
(***************************************************************************)
Returned == {"hit", "make_failed", "built"}

\* Build._run (benchmarks.py 180-204) after builder.build: an exception of
\* build leaves _run; "if cmd:" is true of every Command object, whatever
\* its exit status, and its branch reports and then raises RuntimeError
BuildRun(val) ==
    IF val.kind = "raised" THEN "raised"
    ELSE IF val.kind = "Command" THEN "raised"
    ELSE "ok"

BuildInputs == {"bad_head", "moved", "conf_fails", "make_fails",
                "bad_version", "ok"}

Build(k) ==
    /\ pc = "idle"
    /\ UNCHANGED <<ibdVars, lockVars, gitVars, auxVars, benches, spc, ran,
                   cache_path>>
    /\ (cache_path /\ CacheKey(k) \in DOMAIN cachedir) \/ clock < MaxClock
    \* keys are interchangeable: after n saves the call is for one of the
    \* first n + 2
    /\ CacheKey(k) <= clock + 2
    /\ build_key' = CacheKey(k)
    /\ \E in \in BuildInputs :
       IF in = "bad_head"
       THEN \* "checkout .. has bad HEAD"
            /\ build_ret' = "bad_head"
            /\ build_val' = Raised
            /\ deleted' = <<>>
            /\ UNCHANGED <<cachedir, repo, clock>>
       ELSE IF cache_path /\ CacheKey(k) \in DOMAIN cachedir
       THEN \* BuildCache.restore: rm the tree, copy the entry, check it
            /\ repo' = ReadVersion(Restored(cachedir, CacheKey(k)), in = "moved")
            /\ build_ret' = IF AssertVersionRaises(repo')
                            THEN "restore_raised" ELSE "hit"
            /\ build_val' = IF AssertVersionRaises(repo')
                            THEN Raised ELSE ReturnsNone
            /\ deleted' = <<>>
            /\ UNCHANGED <<cachedir, clock>>
       ELSE IF in = "conf_fails"
       THEN /\ build_ret' = "configure_failed"
            /\ build_val' = Raised
            /\ deleted' = <<>>
            /\ UNCHANGED <<cachedir, repo, clock>>
       ELSE IF in = "make_fails"
       THEN /\ build_ret' = "make_failed"
            /\ build_val' = MakeCommand(2)
            /\ deleted' = <<>>
            /\ UNCHANGED <<cachedir, repo, clock>>
       ELSE /\ repo' = ReadVersion(TargetVersion(k), in = "bad_version")
            /\ IF AssertVersionRaises(repo')
               THEN /\ build_ret' = "version_raised"
                    /\ build_val' = Raised
                    /\ deleted' = <<>>
                    /\ UNCHANGED <<cachedir, clock>>
               ELSE IF ~cache_path
               THEN /\ build_ret' = "built"
                    /\ build_val' = MakeCommand(0)
                    /\ deleted' = <<>>
                    /\ UNCHANGED <<cachedir, clock>>
               ELSE IF SaveRaises(cachedir, CacheKey(k))
               THEN /\ build_ret' = "save_raised"
                    /\ build_val' = Raised
                    /\ deleted' = <<>>
                    /\ UNCHANGED <<cachedir, clock>>
               ELSE \* cache.save(target); cache.clean()
                    LET saved == Save(cachedir, CacheKey(k), repo', clock + 1)
                        gone == CleanRemoves(saved, FALSE)
                    IN /\ cachedir' = Restrict(saved, DOMAIN saved \ gone)
                       /\ deleted' = Restrict(saved, gone)
                       /\ clock' = clock + 1
                       /\ build_ret' = "built"
                       /\ build_val' = MakeCommand(0)
    \* the call is the one of Build._run
    /\ last_run' = BuildRun(build_val')

NextCache == \E k \in Keys : Build(k)

SpecCache == InitCache /\ [][NextCache]_vars

\* C39 (as stated): Build._run completes without raising when the build
\* was compiled with make exiting with 0, as it does when the build was
\* restored from the cache.
C39_BuildRaisesOnlyOnFailure ==
    build_ret \in {"built", "hit"} => last_run = "ok"

(***************************************************************************)
(* BuildCache.clean (bitcoind.py 566-577) on any cache directory.          *)
(***************************************************************************)
CacheDirs ==
    UNION {[1..k -> [mtime : 1..MaxMtime, tree : {TargetVersion(1)}]] :
              k \in 0..MaxCacheFiles}

InitClean ==
    /\ IbdIdle
    /\ InitHarnessIdle
    /\ InitLockIdle
    /\ cachedir \in CacheDirs
    /\ repo = NoMatch
    /\ cache_path = TRUE
    /\ build_ret = "none"
    /\ build_key = 0
    /\ build_val = NoCall
    /\ deleted = <<>>
    /\ clock = 0

Clean ==
    /\ pc = "idle"
    /\ \E rev \in BOOLEAN :
         LET gone == CleanRemoves(cachedir, rev)
         IN /\ cachedir' = Restrict(cachedir, DOMAIN cachedir \ gone)
            /\ deleted' = Restrict(cachedir, gone)
    /\ build_ret' = "cleaned"
    /\ UNCHANGED <<ibdVars, lockVars, harnessVars, repo, cache_path, build_key, build_val,
                   clock>>

NextClean == Clean

SpecClean == InitClean /\ [][NextClean]_vars

(***************************************************************************)
(* BuildCache.save (bitcoind.py 533-538) called with any working tree on   *)
(* any cache directory.                                                    *)
(***************************************************************************)
InitSave ==
    /\ IbdIdle
    /\ InitHarnessIdle
    /\ InitLockIdle
    /\ cachedir \in CacheDirs
    /\ repo \in {TargetVersion(k) : k \in Keys}
    /\ cache_path = TRUE
    /\ build_ret = "none"
    /\ build_key = 0
    /\ build_val = NoCall
    /\ deleted = <<>>
    /\ clock = MaxMtime

CacheSave(k) ==
    /\ pc = "idle"
    /\ clock < MaxClock
    /\ build_key' = CacheKey(k)
    /\ IF SaveRaises(cachedir, CacheKey(k))
       THEN \* FileExistsError out of shutil.copytree
            /\ build_ret' = "save_raised"
            /\ UNCHANGED <<cachedir, clock>>
       ELSE /\ cachedir' = Save(cachedir, CacheKey(k), repo, clock + 1)
            /\ clock' = clock + 1
            /\ build_ret' = "saved"
    /\ UNCHANGED <<ibdVars, lockVars, harnessVars, repo, cache_path, build_val, deleted>>

NextSave == \E k \in Keys : CacheSave(k)

SpecSave == InitSave /\ [][NextSave]_vars

(***************************************************************************)
(* Properties of the build cache.                                          *)
(***************************************************************************)
Min(a, b) == IF a <= b THEN a ELSE b

\* C8: after clean the directory holds min(CACHE_SIZE, entries before)
\* entries, so at most CACHE_SIZE and all of them when there were no more;
\* what was removed is no newer than anything kept, and what is kept is
\* unchanged.
C8_CleanKeepsNewest ==
    /\ [](build_ret = "cleaned" =>
            LET kept == DOMAIN cachedir
                gone == DOMAIN deleted
            IN /\ kept \cap gone = {}
               /\ Cardinality(kept) =
                     Min(CACHE_SIZE, Cardinality(kept) + Cardinality(gone))
               /\ \A a \in kept, b \in gone :
                     cachedir[a].mtime >= deleted[b].mtime)
    /\ [][build_ret' = "cleaned" =>
            /\ DOMAIN cachedir' \subseteq DOMAIN cachedir
            /\ cachedir' = Restrict(cachedir, DOMAIN cachedir')
            /\ deleted' = Restrict(cachedir, DOMAIN cachedir \ DOMAIN cachedir')]_vars

C8_Witness ==
    /\ build_ret = "cleaned"
    /\ Cardinality(DOMAIN cachedir) = CACHE_SIZE
    /\ Cardinality(DOMAIN deleted) = 2
    /\ \E a \in DOMAIN cachedir, b \in DOMAIN deleted :
          cachedir[a].mtime > deleted[b].mtime
    /\ \E a \in DOMAIN cachedir, b \in DOMAIN deleted :
          cachedir[a].mtime = deleted[b].mtime

\* C9: with a cache path configured, whenever build has returned the cache
\* directory holds at most CACHE_SIZE entries.
C9_CacheBounded ==
    (cache_path /\ build_ret \in Returned) =>
        Cardinality(DOMAIN cachedir) <= CACHE_SIZE

C9_Witness ==
    /\ cache_path
    /\ build_ret = "built"
    /\ Cardinality(DOMAIN cachedir) = CACHE_SIZE
    /\ deleted # <<>>

\* C10: build never ends in a cache hit with restored binaries whose version
\* holds neither the short commit id nor the ref: whenever restore has copied
\* such binaries into the tree, the call has raised from restore.
C10_NoHitOnBadVersion ==
    /\ build_ret = "hit" => repo.has_sha \/ repo.has_ref
    /\ build_ret = "restore_raised" => ~repo.has_sha /\ ~repo.has_ref

C10_Witness ==
    /\ build_ret = "restore_raised"
    /\ ~repo.has_sha
    /\ ~repo.has_ref
    /\ Cardinality(DOMAIN cachedir) > 1


\* C11 (as stated): when restore has found an entry whose binaries fail the
\* version check, the entry is gone from the cache afterwards and the caller
\* of build holds the Command of the full build, not an exception.
C11_BadEntryRecovered ==
    build_ret = "restore_raised" =>
        /\ build_key \notin DOMAIN cachedir
        /\ build_val.kind = "Command"

\* C12: a build that ends in a configure failure, a compile failure or a
\* version mismatch leaves the cache entries as they were; the entries change
\* only in a build whose make exited with 0 and whose tree passed the version
\* check, and the entry written is that tree under the key of the call.
C12_SaveOnlyAfterVerifiedBuild ==
    /\ [][build_ret' \in {"configure_failed", "make_failed", "version_raised"}
            => cachedir' = cachedir]_vars
    /\ [][cachedir' # cachedir =>
            /\ build_ret' = "built"
            /\ build_val'.returncode = 0
            /\ repo'.has_sha \/ repo'.has_ref
            /\ build_key' \in DOMAIN cachedir' \ DOMAIN cachedir
            /\ cachedir'[build_key'].tree = repo']_vars

C12_Witness ==
    /\ build_ret = "version_raised"
    /\ cache_path
    /\ build_key \notin DOMAIN cachedir
    /\ Cardinality(DOMAIN cachedir) >= 2

C14_SaveReplaces ==
    build_ret \in {"saved", "save_raised"} =>
        /\ build_ret = "saved"
        /\ cachedir[build_key].tree = repo

\* C15: build gives its caller None exactly when it restored the tree from
\* the cache, and a Command exactly when make has run; the Command's return
\* code is set, zero or not.
C15_ReturnValue ==
    /\ build_val.kind = "None" <=> build_ret = "hit"
    /\ build_ret = "hit" =>
          /\ cache_path
          /\ build_key \in DOMAIN cachedir
          /\ repo.commit = build_key
    /\ build_val.kind = "Command" <=> build_ret \in {"make_failed", "built"}
    /\ build_val.kind = "Command" =>
          /\ build_val.returncode # None
          /\ build_val.returncode = 0 <=> build_ret = "built"

C15_Witness ==
    /\ build_ret = "make_failed"
    /\ build_val.kind = "Command"
    /\ build_val.returncode = 2
    /\ cache_path
    /\ cachedir # <<>>


(***************************************************************************)
(* git.resolve_targets (git.py 94-224).  The repository holds three        *)
(* commits: 1, the tip of origin/master; 2, an ancestor of it, which the   *)
(* tag v1 names; 3, the tip of origin/feature, forked off at 2.  A commit  *)
(* made by a rebase at time t of commit c is 10 * t + c.  A target is its  *)
(* gitref and its rebase flag, all on the remote origin.                   *)
(***************************************************************************)
MERGEBASE_REF == "$mergebase"

\* refs/remotes/origin/*
RemoteRefs == [master |-> 1, feature |-> 3]

\* refs/tags/*, reached by "git rev-parse {ref}" only
LocalRefs == [v1 |-> 2]

\* util.is_hex
IsHex(ref) == ref \in {"c3", "dead"}

\* the commit a hex ref names; "dead" names none in this repository
HexCommit(ref) == IF ref = "c3" THEN 3 ELSE 0

\* "git show {ref}" exits with 0
GitShowOk(ref) == ref = "c3"

GitRefs == {"master", "feature", "v1", "missing", "c3", "dead"}

TargetSpecs ==
    [gitref : GitRefs, rebase : BOOLEAN]
        \cup {[gitref |-> MERGEBASE_REF, rebase |-> FALSE]}

Batches == UNION {[1..n -> TargetSpecs] : n \in 1..MaxTargets}

IsMarker(tar) == tar.gitref = MERGEBASE_REF

\* the indices from i on, in order, of the targets of batch that carry the
\* marker (marker = TRUE) or do not (FALSE)
RECURSIVE SelectIdx(_, _, _)
SelectIdx(batch, i, marker) ==
    IF i > Len(batch) THEN <<>>
    ELSE (IF IsMarker(batch[i]) = marker THEN <<i>> ELSE <<>>)
             \o SelectIdx(batch, i + 1, marker)

\* "git merge-base origin/master {c}"
MergeBaseWithMaster(c) == IF c = 1 THEN 1 ELSE 2

\* get_git_mergebase: None when it raises ValueError
GetGitMergebase(ref) ==
    IF IsHex(ref)
    THEN IF GitShowOk(ref) THEN MergeBaseWithMaster(HexCommit(ref)) ELSE None
    ELSE IF ref \in DOMAIN RemoteRefs
         THEN MergeBaseWithMaster(RemoteRefs[ref]) ELSE None

\* "git log -1 --pretty=%B": a rebased commit keeps its message
GetCommitMsg(sha) == sha % 10

NoCheckout == [ref |-> "", sha |-> None, commit_msg |-> None,
               pre_rebase_sha |-> None]

GitCheckout(ref, sha, pre) ==
    [ref |-> ref, sha |-> sha, commit_msg |-> GetCommitMsg(sha),
     pre_rebase_sha |-> pre]

\* lines 176-195: is the ref bad, and the sha it gives
ResolveRef(ref) ==
    IF IsHex(ref)
    THEN [bad |-> ~GitShowOk(ref), sha |-> HexCommit(ref)]
    ELSE IF ref \in DOMAIN RemoteRefs
         THEN [bad |-> FALSE, sha |-> RemoteRefs[ref]]
         ELSE IF ref \in DOMAIN LocalRefs
              THEN [bad |-> FALSE, sha |-> LocalRefs[ref]]
              ELSE [bad |-> TRUE, sha |-> None]

\* faulty variant: the target's commit checked out before the rebase
HeadAtRebaseCheckedOut(hd, sha) == sha

\* the commit HEAD is at when "git rebase origin/master" runs: nothing has
\* moved it since "git reset --hard origin/master"
HeadAtRebase(hd, sha) == hd

\* "git rebase origin/master" at time t with HEAD at hd: the commit HEAD is
\* at afterwards.  A command that fails leaves HEAD on origin/master.
GitRebase(hd, ok, t) ==
    IF ~ok THEN RemoteRefs.master
    ELSE IF hd \in {1, 2} THEN RemoteRefs.master
    ELSE 10 * t + (hd % 10)

\* lines 175-222: the loop over the targets without marker
RECURSIVE ResolveOthers(_, _, _, _, _)
ResolveOthers(batch, others, acc, ok, t) ==
    IF others = <<>> THEN acc
    ELSE LET i == Head(others)
             tar == batch[i]
             res == ResolveRef(tar.gitref)
         IN IF res.bad
            THEN ResolveOthers(batch, Tail(others),
                               [acc EXCEPT !.bad = Append(@, i)], ok, t)
            ELSE LET hd == IF tar.rebase
                           THEN GitRebase(HeadAtRebase(acc.head, res.sha), ok, t)
                           ELSE acc.head
                     sha == IF tar.rebase THEN hd ELSE res.sha
                     pre == IF tar.rebase THEN res.sha ELSE None
                     co == GitCheckout(tar.gitref, sha, pre)
                 IN ResolveOthers(batch, Tail(others),
                        [acc EXCEPT !.checkouts = Append(@, co),
                                    !.gitco[i] = co,
                                    !.head = hd], ok, t)

\* resolve_targets on the targets batch carrying the checkouts cos, in a
\* repository left on origin/master by "git reset --hard origin/master"
ResolveTargets(batch, cos, ok, t) ==
    LET mergebase == SelectIdx(batch, 1, TRUE)
        others == SelectIdx(batch, 1, FALSE)
        start == [kind |-> "returned", checkouts |-> <<>>, bad |-> <<>>,
                  gitco |-> cos, head |-> RemoteRefs.master]
        raised == [start EXCEPT !.kind = "raised"]
    IN IF mergebase = <<>> THEN ResolveOthers(batch, others, start, ok, t)
       ELSE IF Len(others) # 1
       THEN \* "can only process mergebase against one other target"
            raised
       ELSE LET sha == GetGitMergebase(batch[others[1]].gitref)
                \* ref = mergebase_sha: "(sha)" stands for the sha as a ref
                co == GitCheckout("(sha)", sha, None)
            IN IF sha = None
               THEN \* "could not get merge-base for .."
                    raised
               ELSE ResolveOthers(batch, others,
                        [start EXCEPT !.checkouts = <<co>>,
                                      !.gitco[mergebase[1]] = co], ok, t)

InitGit ==
    /\ IbdIdle
    /\ InitLockIdle
    /\ InitCacheIdle
    /\ InitSuiteIdle
    /\ InitAuxIdle
    /\ to_bench \in Batches
    /\ gitco = [i \in DOMAIN to_bench |-> NoCheckout]
    /\ head = RemoteRefs.master
    /\ rt = NoResult
    /\ rt_first = NoResult
    /\ calls = 0

CallResolveTargets ==
    /\ pc = "idle"
    /\ calls < MaxCalls
    /\ \E ok \in BOOLEAN :
         LET res == ResolveTargets(to_bench, gitco, ok, calls + 1)
         IN /\ rt' = [kind |-> res.kind, checkouts |-> res.checkouts,
                      bad |-> res.bad, rebase_ok |-> ok]
            /\ gitco' = res.gitco
            /\ head' = res.head
            /\ rt_first' = IF calls = 0 THEN rt' ELSE rt_first
    /\ calls' = calls + 1
    /\ UNCHANGED <<ibdVars, lockVars, cacheVars, suiteVars, auxVars, to_bench>>

\* git.checkout_in_dir (git.py 73-86) for target i
CheckoutInDir(i) ==
    /\ pc = "idle"
    /\ i \in DOMAIN to_bench
    /\ gitco[i] # NoCheckout
    /\ head' = gitco[i].sha
    /\ UNCHANGED <<ibdVars, lockVars, cacheVars, suiteVars, auxVars, to_bench, gitco,
                   rt, rt_first, calls>>

NextGit ==
    \/ CallResolveTargets
    \/ \E i \in 1..MaxTargets : CheckoutInDir(i)

SpecGit == InitGit /\ [][NextGit]_vars

(***************************************************************************)
(* Properties of resolve_targets.                                          *)
(***************************************************************************)
Markers == {i \in DOMAIN to_bench : IsMarker(to_bench[i])}

Others == DOMAIN to_bench \ Markers

Resolves(i) == ~ResolveRef(to_bench[i].gitref).bad

\* a marker comes with exactly one other target
WellFormed == Markers = {} \/ Cardinality(Others) = 1

\* the indices of set idx in ascending order
RECURSIVE Ascending(_)
Ascending(idx) ==
    IF idx = {} THEN <<>>
    ELSE LET m == CHOOSE x \in idx : \A y \in idx : x <= y
         IN <<m>> \o Ascending(idx \ {m})

\* C16 (as stated): for a batch, with or without a marker, that holds a
\* target whose ref does not resolve, resolve_targets returns; its second
\* list holds the targets whose ref does not resolve and every other target
\* has its checkout in the first list.
C16_BadRefsNeverRaise ==
    (rt.kind # "none" /\ WellFormed /\ \E i \in Others : ~Resolves(i)) =>
        /\ rt.kind = "returned"
        /\ rt.bad = Ascending({i \in Others : ~Resolves(i)})
        /\ \A i \in Others : Resolves(i) =>
              /\ gitco[i] # NoCheckout
              /\ gitco[i] \in Range(rt.checkouts)

\* the last call has run "git rebase origin/master" for target i and the
\* command has failed
RebaseFailed(i) ==
    /\ rt.kind # "none"
    /\ ~rt.rebase_ok
    /\ i \in Others
    /\ to_bench[i].rebase
    /\ Resolves(i)
    /\ WellFormed
    /\ Markers # {} => GetGitMergebase(to_bench[i].gitref) # None

\* C19 (as stated): when the rebase of a target has failed, resolve_targets
\* has raised and no checkout stands for that target.
C19_FailedRebaseRaises ==
    \A i \in DOMAIN to_bench : RebaseFailed(i) =>
        /\ rt.kind = "raised"
        /\ \A n \in DOMAIN rt.checkouts : rt.checkouts[n].ref # to_bench[i].gitref

\* C20: a later call of resolve_targets on the same targets ends as the first
\* one did, with the same checkouts (sha and pre_rebase_sha) in the same
\* order and the same unresolved targets.
C20_ResolveIdempotent ==
    calls >= 2 =>
        /\ rt.kind = rt_first.kind
        /\ rt.checkouts = rt_first.checkouts
        /\ rt.bad = rt_first.bad

C20_Witness ==
    /\ calls = 2
    /\ rt.kind = "returned"
    /\ Len(rt.checkouts) = 2
    /\ Markers # {}
    /\ rt.checkouts[2].pre_rebase_sha = 3
    /\ rt.rebase_ok
    /\ ~rt_first.rebase_ok


\* the last call has returned after a rebase command that succeeded, and
\* target i asks for a rebase and has a ref that resolves
Rebased(i) ==
    /\ rt.kind = "returned"
    /\ rt.rebase_ok
    /\ i \in Others
    /\ to_bench[i].rebase
    /\ Resolves(i)

\* C31 (as stated): for a target that asks for a rebase the checkout records
\* the commit its ref resolves to as pre_rebase_sha and, as sha, the commit
\* made by rebasing that commit onto origin/master in this call.
C31_RebasedShaRecorded ==
    \A i \in DOMAIN to_bench : Rebased(i) =>
        LET resolved == ResolveRef(to_bench[i].gitref).sha
        IN /\ gitco[i].pre_rebase_sha = resolved
           /\ gitco[i].sha = GitRebase(resolved, TRUE, calls)


\* the first target of the batch that carries the marker (mergebase[0])
FirstMarker == CHOOSE m \in Markers : \A n \in Markers : m <= n

\* C32 (as stated): in a batch with a marker, resolve_targets raises and
\* attaches no checkout unless exactly one target is without marker; with
\* exactly one, whose ref resolves, it returns and the marker's checkout is
\* the merge-base of origin/master and the commit of that target's ref.
C32_MarkerNeedsOneOther ==
    (rt.kind # "none" /\ Markers # {}) =>
        IF Cardinality(Others) # 1
        THEN /\ rt.kind = "raised"
             /\ \A i \in DOMAIN to_bench : gitco[i] = NoCheckout
        ELSE \A o \in Others : Resolves(o) =>
                /\ rt.kind = "returned"
                /\ gitco[FirstMarker].sha =
                       MergeBaseWithMaster(ResolveRef(to_bench[o].gitref).sha)


\* target i is in the list of bad targets the last call returned
InBad(i) == \E n \in DOMAIN rt.bad : rt.bad[n] = i

\* target i has a checkout and the last call returned it
InCheckouts(i) ==
    /\ gitco[i] # NoCheckout
    /\ \E n \in DOMAIN rt.checkouts : rt.checkouts[n] = gitco[i]

\* C40 (as stated): when resolve_targets has returned, every target of the
\* batch is either among the bad targets, without checkout, or has a
\* checkout that is among the checkouts returned, and never both.
C40_BadOrCheckedOut ==
    rt.kind = "returned" =>
        \A i \in DOMAIN to_bench :
            \/ InBad(i) /\ gitco[i] = NoCheckout
            \/ ~InBad(i) /\ InCheckouts(i)


(***************************************************************************)
(* main.run_full_suite (main.py 80-143) with maybe_run_bench_some_times    *)
(* (146-157) and Benchmark.run (benchmarks.py 99-117).  cfg.benches is the *)
(* set of optional benchmarks configured, the compilers and one run_count  *)
(* for all of them.                                                        *)
(***************************************************************************)
\* the benchmarks run per compiler and those run once per target, in order
PerCompiler == <<"build", "unittests", "functests", "microbench">>

PerTarget == <<"ibd_from_network", "ibd_from_local", "ibd_range_from_local",
               "reindex", "reindex_chainstate">>

SuiteConfigs ==
    [on : {{}, {"unittests", "ibd_from_local"}},
     compilers : {<<"gcc">>, <<"gcc", "clang">>},
     run_count : 1..MaxRunCount]

\* maybe_run_bench_some_times: the executions of one benchmark
Repeat(c, name, compiler) ==
    IF name \in c.on \/ name = "build"
    THEN [i \in 1..c.run_count |->
             [bench |-> name, compiler |-> compiler, run_idx |-> i - 1]]
    ELSE <<>>

RECURSIVE Executions(_, _, _, _)
Executions(c, names, n, compiler) ==
    IF n > Len(names) THEN <<>>
    ELSE Repeat(c, names[n], compiler) \o Executions(c, names, n + 1, compiler)

RECURSIVE ForCompilers(_, _)
ForCompilers(c, n) ==
    IF n > Len(c.compilers) THEN <<>>
    ELSE Executions(c, PerCompiler, 1, c.compilers[n]) \o ForCompilers(c, n + 1)

\* the executions of one target, in the order of lines 102-143
TargetPlan(c) ==
    ForCompilers(c, 1)
        \o Executions(c, PerTarget, 1, c.compilers[Len(c.compilers)])

\* what Benchmark.run does: returns after a run that went well ("ok") or
\* that saw and logged a failure ("failed"), or raises what _run raised
RunOutcomes == {"ok", "failed", "raised"}

InitSuite ==
    /\ IbdIdle
    /\ InitLockIdle
    /\ InitCacheIdle
    /\ InitAuxIdle
    /\ to_bench \in Batches
    /\ gitco = [i \in DOMAIN to_bench |-> NoCheckout]
    /\ head = RemoteRefs.master
    /\ rt = NoResult
    /\ rt_first = NoResult
    /\ calls = 0
    /\ benches \in SuiteConfigs
    /\ spc = "start"
    /\ ran = 0
    /\ last_run = "none"

\* lines 90-98: the startup assertions, resolve_targets, "if bad_targets"
SuiteStart ==
    /\ pc = "idle"
    /\ spc = "start"
    /\ \E startup_ok \in BOOLEAN, ok \in BOOLEAN :
         IF ~startup_ok
         THEN /\ spc' = "raised"
              /\ UNCHANGED <<gitco, head, rt, rt_first, calls>>
         ELSE LET res == ResolveTargets(to_bench, gitco, ok, calls + 1)
              IN /\ rt' = [kind |-> res.kind, checkouts |-> res.checkouts,
                           bad |-> res.bad, rebase_ok |-> ok]
                 /\ gitco' = res.gitco
                 /\ head' = res.head
                 /\ rt_first' = rt'
                 /\ calls' = calls + 1
                 /\ spc' = IF res.kind = "raised" THEN "raised"
                           ELSE IF res.bad # <<>> THEN "returned"
                           ELSE "benching"
    /\ UNCHANGED <<ibdVars, lockVars, cacheVars, auxVars, to_bench, benches, ran,
                   last_run>>

\* the target of execution number n
TargetOf(n) == ((n - 1) \div Len(TargetPlan(benches))) + 1

PlannedRuns == Len(to_bench) * Len(TargetPlan(benches))

\* the next b.run(cfg, bench_cfg) of the loops
RunBench ==
    /\ pc = "idle"
    /\ spc = "benching"
    /\ ran < PlannedRuns
    /\ IF gitco[TargetOf(ran + 1)] = NoCheckout
       THEN \* assert target.gitco
            /\ spc' = "raised"
            /\ UNCHANGED <<ran, last_run>>
       ELSE \E out \in RunOutcomes :
              /\ ran' = ran + 1
              /\ last_run' = out
              /\ spc' = IF out = "raised" THEN "raised" ELSE "benching"
    /\ UNCHANGED <<ibdVars, lockVars, cacheVars, gitVars, auxVars, benches>>

\* the loops are over
SuiteEnd ==
    /\ pc = "idle"
    /\ spc = "benching"
    /\ ran = PlannedRuns
    /\ spc' = "returned"
    /\ UNCHANGED <<ibdVars, lockVars, cacheVars, gitVars, auxVars, benches, ran,
                   last_run>>

NextSuite ==
    \/ SuiteStart
    \/ RunBench
    \/ SuiteEnd

SpecSuite == InitSuite /\ [][NextSuite]_vars

(***************************************************************************)
(* Properties of run_full_suite.                                           *)
(***************************************************************************)
AllResolved ==
    /\ rt.kind = "returned"
    /\ rt.bad = <<>>
    /\ \A i \in DOMAIN to_bench : gitco[i] # NoCheckout

\* C17 (as stated): an execution that fails, by an exception or by a failure
\* it has detected, ends alone: run_full_suite goes on and returns only
\* after every planned execution of every target has been run.
C17_FailureAbortsOnlyExecution ==
    AllResolved =>
        /\ spc # "raised"
        /\ spc = "returned" => ran = PlannedRuns

\* C18 (as stated): when some targets did not resolve, run_full_suite still
\* runs the planned executions of every target that did.
C18_ResolvedTargetsStillRun ==
    (spc = "returned" /\ rt.kind = "returned" /\ rt.bad # <<>>) =>
        ran = Len(TargetPlan(benches))
                  * Cardinality({i \in DOMAIN to_bench : gitco[i] # NoCheckout})


(***************************************************************************)
(* Node.wait_for_init (bitcoind.py 170-217): the status queries until the  *)
(* node answers, the process check after them, and the stop of a node      *)
(* whose chain is too short.                                               *)
(***************************************************************************)
\* "num_tries = 600"
NUM_TRIES == 600

\* the block counts a node reports, and the require_height arguments
ReportedHeights == {50, 150}
RequireHeights == {0, 100}

\* call_rpc("getblockchaininfo")["blocks"], None when the call failed
StatusInfo(n, answers, h) == IF RpcFails(n, answers) THEN None ELSE h

\* "info and require_height and info["blocks"] < require_height"
NotEnoughBlocks(blocks, req) == blocks # None /\ req # 0 /\ blocks < req

\* "while num_tries > 0 and self.is_process_alive and not bitcoind_up"
WaitLoopGoesOn(tries, n, up) == tries > 0 /\ IsProcessAlive(n) /\ ~up

WaitDone == {"returned", "died", "not_up", "not_enough"}

InitWaitInit ==
    /\ IbdIdle
    /\ InitLockIdle
    /\ InitCacheIdle
    /\ InitGitIdle
    /\ InitSuiteIdle
    /\ InitPollIdle
    /\ InitLogIdle
    /\ InitUsageIdle
    /\ wpc = "loop"
    /\ wnode = Started(NewNode)
    /\ require_height \in RequireHeights
    /\ num_tries = NUM_TRIES
    /\ bitcoind_up = FALSE
    /\ block_count = None
    /\ stop_accepted = FALSE

\* the loop test and one pass of the loop body
WaitIter ==
    /\ wpc = "loop"
    /\ UNCHANGED <<ibdVars, lockVars, cacheVars, gitVars, suiteVars, usageVars,
                   pollVars, logVars>>
    /\ UNCHANGED <<require_height, stop_accepted>>
    /\ wnode' = IF num_tries > 0 THEN Polled(wnode) ELSE wnode
    /\ IF WaitLoopGoesOn(num_tries, wnode, bitcoind_up)
       THEN \E answers \in BOOLEAN, h \in ReportedHeights :
            LET got == StatusInfo(wnode, answers, h) IN
            IF NotEnoughBlocks(got, require_height)
            THEN /\ wpc' = "stop"
                 /\ UNCHANGED <<num_tries, bitcoind_up, block_count>>
            ELSE IF got # None
            THEN /\ bitcoind_up' = TRUE
                 /\ block_count' = got
                 /\ UNCHANGED <<wpc, num_tries>>
            ELSE \* time.sleep(1)
                 /\ num_tries' = num_tries - 1
                 /\ UNCHANGED <<wpc, bitcoind_up, block_count>>
       ELSE /\ wpc' = "after"
            /\ UNCHANGED <<num_tries, bitcoind_up, block_count>>

\* self.stop_via_rpc(): call_rpc("stop"), whose result is not looked at
WaitStop ==
    /\ wpc = "stop"
    /\ UNCHANGED <<ibdVars, lockVars, cacheVars, gitVars, suiteVars, usageVars,
                   pollVars, logVars>>
    /\ UNCHANGED <<wnode, require_height, num_tries, bitcoind_up, block_count>>
    /\ \E answers \in BOOLEAN :
         stop_accepted' = ~RpcFails(wnode, answers)
    /\ wpc' = "join"

\* self.cmd.join(timeout=None) returns when the process has ended; then the
\* RuntimeError is raised
WaitJoin ==
    /\ wpc = "join"
    /\ wnode.os = "exited"
    /\ UNCHANGED <<ibdVars, lockVars, cacheVars, gitVars, suiteVars, usageVars,
                   pollVars, logVars>>
    /\ UNCHANGED <<require_height, num_tries, bitcoind_up, block_count,
                   stop_accepted>>
    /\ wnode' = Polled(wnode)
    /\ wpc' = "not_enough"

\* after the loop: "if not self.is_process_alive", "if not bitcoind_up",
\* "return block_count"
WaitAfter ==
    /\ wpc = "after"
    /\ UNCHANGED <<ibdVars, lockVars, cacheVars, gitVars, suiteVars, usageVars,
                   pollVars, logVars>>
    /\ UNCHANGED <<require_height, num_tries, bitcoind_up, block_count,
                   stop_accepted>>
    /\ wnode' = Polled(wnode)
    /\ wpc' = IF ~IsProcessAlive(wnode) THEN "died"
              ELSE IF ~bitcoind_up THEN "not_up"
              ELSE "returned"

\* the node's process ends
WaitNodeExits ==
    /\ wpc \notin WaitDone
    /\ wnode.os = "running"
    /\ UNCHANGED <<ibdVars, lockVars, cacheVars, gitVars, suiteVars, usageVars,
                   pollVars, logVars>>
    /\ UNCHANGED <<wpc, require_height, num_tries, bitcoind_up, block_count,
                   stop_accepted>>
    /\ \E c \in ExitCodes : wnode' = Exited(wnode, c)

NextWaitInit ==
    \/ WaitIter
    \/ WaitStop
    \/ WaitJoin
    \/ WaitAfter
    \/ WaitNodeExits

SpecWaitInit == InitWaitInit /\ [][NextWaitInit]_vars

\* The caller's thread always takes its next step, and a node that has taken
\* a stop request ends.
SpecWaitInitFair ==
    /\ SpecWaitInit
    /\ WF_vars(WaitIter)
    /\ WF_vars(WaitStop)
    /\ WF_vars(WaitJoin)
    /\ WF_vars(WaitAfter)
    /\ WF_vars(stop_accepted /\ WaitNodeExits)

\* C21 (as stated): wait_for_init always terminates; it returns a block
\* height only after a status query succeeded (at least require_height when
\* that is given); it raises when the process ended before answering, when
\* 600 queries failed, and, after a stop was sent, when the reported height
\* is below require_height.
C21_WaitForInitTerminates ==
    /\ [](wpc = "returned" =>
             /\ bitcoind_up
             /\ block_count \in ReportedHeights
             /\ require_height # 0 => block_count >= require_height)
    /\ [](wpc = "not_up" => num_tries = 0 /\ ~bitcoind_up)
    /\ [](wpc = "died" => wnode.returncode # None)
    /\ <>(wpc \in WaitDone)


(***************************************************************************)
(* The status polls of the benchmark loop: _IbdBench._run (benchmarks.py   *)
(* 400-433) calling Node.poll_for_height_and_progress (bitcoind.py         *)
(* 277-303), which calls Node.call_rpc (219-249) up to 20 times.           *)
(***************************************************************************)
\* "tries_left = 20"
POLL_TRIES == 20

\* polls one execution makes at most
MaxPolls == 3

\* what a status query that went through can say
Answers == [ok : {TRUE}, blocks : {100, 200}, verificationprogress : ProgressVals]

\* Node.call_rpc: "if call.returncode != 0: return None", else the output
CallRpc(rc, out) == IF rc # 0 THEN NoInfo ELSE out

\* faulty variant: gives up after the first failed query
PollLoopOnce(tries, inf) == tries = POLL_TRIES /\ ~inf.ok

\* "while tries_left > 0 and not info"
PollLoopGoesOn(tries, inf) == tries > 0 /\ ~inf.ok

\* "if not info: return (None, None)", else (blocks, verificationprogress)
PollReturns(inf) ==
    IF ~inf.ok THEN <<None, None>> ELSE <<inf.blocks, inf.verificationprogress>>

\* "if last_height_seen is None and progress is None: raise RuntimeError"
PollAborts(ret) == ret[1] = None /\ ret[2] = None

\* the end heights of the polled executions (0: None)
PollEndHeights == {0, 200}

InitPoll ==
    /\ cfg \in {[IdleCfg EXCEPT !.end_height = e] : e \in PollEndHeights}
    /\ IbdIdleButCfg
    /\ InitLockIdle
    /\ InitCacheIdle
    /\ InitGitIdle
    /\ InitSuiteIdle
    /\ InitWaitIdle
    /\ InitLogIdle
    /\ InitUsageIdle
    /\ ppc = "loop"
    /\ tries_left = 0
    /\ info = NoInfo
    /\ poll_ret = <<None, None>>
    /\ failed = 0
    /\ polls = 0
    /\ nstate = "syncing"

\* the loop calls poll_for_height_and_progress
PollCall ==
    /\ ppc = "loop"
    /\ UNCHANGED <<ibdVars, lockVars, cacheVars, gitVars, suiteVars, usageVars,
                   waitVars, logVars>>
    /\ tries_left' = POLL_TRIES
    /\ info' = NoInfo
    /\ failed' = 0
    /\ polls' = IF polls < MaxPolls THEN polls + 1 ELSE polls
    /\ ppc' = "query"
    /\ UNCHANGED <<poll_ret, nstate>>

\* what bitcoin-cli can exit with, and what the node can answer: a node that
\* has reached the end height or progress 0.9999 says so, one that has not
\* does not; a mute or ended node answers nothing
CliExitCodes(st) == IF st \in {"syncing", "reached"} THEN ExitCodes ELSE {1}
AnswersOf(st) ==
    {a \in Answers :
        LoopEnds(a.blocks, a.verificationprogress) <=> (st = "reached")}

\* the loop test of the poll, then one status query or the return
PollQuery ==
    /\ ppc = "query"
    /\ UNCHANGED <<ibdVars, lockVars, cacheVars, gitVars, suiteVars, usageVars,
                   waitVars, logVars>>
    /\ UNCHANGED <<polls, nstate>>
    /\ IF PollLoopGoesOn(tries_left, info)
       THEN \E rc \in CliExitCodes(nstate), out \in AnswersOf(nstate) :
            LET got == CallRpc(rc, out) IN
            /\ info' = got
            /\ tries_left' = IF got.ok THEN tries_left ELSE tries_left - 1
            /\ failed' = IF got.ok THEN failed ELSE failed + 1
            /\ UNCHANGED <<ppc, poll_ret>>
       ELSE /\ poll_ret' = PollReturns(info)
            /\ ppc' = "test"
            /\ UNCHANGED <<tries_left, info, failed>>

\* what the loop does with the pair (benchmarks.py 409-433) and the rest of
\* the pass (435-480), in which get_resource_usage and memusage_kib raise
\* for a process that has ended
PollTest ==
    /\ ppc = "test"
    /\ UNCHANGED <<ibdVars, lockVars, cacheVars, gitVars, suiteVars, usageVars,
                   waitVars, logVars>>
    /\ UNCHANGED <<tries_left, info, poll_ret, failed, polls, nstate>>
    /\ ppc' = IF PollAborts(poll_ret) THEN "aborted"
              ELSE IF LoopEnds(poll_ret[1], poll_ret[2]) THEN "ended"
              ELSE IF nstate = "exited" THEN "raised"
              ELSE "loop"

PollDone == {"aborted", "ended", "raised"}

\* the node reaches the end height or progress, goes mute, or ends
NodeStates ==
    [syncing |-> {"reached", "mute", "exited"},
     reached |-> {"mute", "exited"},
     mute |-> {"exited"},
     exited |-> {}]

NodeMoves ==
    /\ ppc \notin PollDone
    /\ UNCHANGED <<ibdVars, lockVars, cacheVars, gitVars, suiteVars, usageVars,
                   waitVars, logVars>>
    /\ UNCHANGED <<ppc, tries_left, info, poll_ret, failed, polls>>
    /\ nstate' \in NodeStates[nstate]

NextPoll ==
    \/ PollCall
    \/ PollQuery
    \/ PollTest
    \/ NodeMoves

SpecPoll == InitPoll /\ [][NextPoll]_vars

\* the harness always takes its next step; nothing is asked of the node
SpecPollFair ==
    /\ SpecPoll
    /\ WF_vars(PollCall)
    /\ WF_vars(PollQuery)
    /\ WF_vars(PollTest)

\* C22: the run is aborted for failed status queries only when the poll has
\* returned (None, None), which it does only after 20 failed queries in a
\* row in that poll; a failed query gives None and no exception; a poll in
\* which a query went through returns that query's height and progress, and
\* the run is not aborted.
C22_AbortOnlyAfterTwentyFailures ==
    /\ ppc = "aborted" => PollAborts(poll_ret) /\ ~info.ok
    /\ (ppc \in {"test", "aborted"} /\ PollAborts(poll_ret)) =>
          failed = POLL_TRIES /\ tries_left = 0
    /\ (ppc \in {"test", "loop", "ended"} /\ info.ok) =>
          /\ poll_ret = <<info.blocks, info.verificationprogress>>
          /\ failed < POLL_TRIES
    /\ failed + tries_left \in {0, POLL_TRIES}

C22_Witness ==
    /\ ppc = "aborted"
    /\ polls = 2
    /\ failed = POLL_TRIES


\* the last answer says the end height (when one is configured) or a
\* progress above 0.9999 is reached
AnswerAtEnd ==
    \/ cfg.end_height # 0 /\ info.blocks >= cfg.end_height
    \/ info.verificationprogress > 9999

\* C27: the loop ends normally exactly on the answered polls that see the
\* end height (when one is configured) or a progress above 0.9999; after any
\* other answered poll it goes on (it is left by an exception only when the
\* process has ended); and once the node has reached the end height or that
\* progress, has ended, or has stopped answering, the loop terminates.
C27_LoopEndsExactlyAtEnd ==
    /\ [](ppc = "ended" => info.ok /\ AnswerAtEnd)
    /\ []((ppc = "loop" /\ polls > 0) => info.ok /\ ~AnswerAtEnd)
    /\ [](ppc = "raised" => info.ok /\ ~AnswerAtEnd /\ nstate = "exited")
    /\ (nstate # "syncing") ~> (ppc \in PollDone)

C27_Witness ==
    /\ ppc = "ended"
    /\ polls = 2
    /\ cfg.end_height = 200
    /\ info.blocks = 200
    /\ info.verificationprogress = 5000

(***************************************************************************)
(* logparse.get_flush_times (logparse.py 17-57).  A line is what the two   *)
(* regular expressions and strptime see of it: its leading token (a        *)
(* timestamp in the format of DATETIME_REGEX, a token that starts like a   *)
(* date but is not in that format, or something else), the time a          *)
(* timestamp stands for in seconds, and the numbers of the flush message   *)
(* when the line holds one (secs in hundredths).                           *)
(***************************************************************************)
MaxLines == 3

Stamps == {"std", "odd", "none"}
LineTimes == {1, 10}
LineTexts ==
    {[flush |-> FALSE, count |-> 0, kb |-> 0, secs |-> 0],
     [flush |-> TRUE, count |-> 1201, kb |-> 276, secs |-> 0],
     [flush |-> TRUE, count |-> 0, kb |-> 11, secs |-> 5]}
LogLines ==
    {[stamp |-> s, t |-> t, text |-> x] :
        s \in Stamps, t \in LineTimes, x \in LineTexts}
Logs == UNION {[1..n -> LogLines] : n \in 0..MaxLines}

\* re.search(r'^\d{4}-\d{2}-\d{2}T', line)
StartsLikeDate(l) == l.stamp # "none"

\* does parse_date(line.split()[0]) return (strptime with DATETIME_REGEX)
ParsesDate(l) == l.stamp = "std"

\* FLUSHED_LINE_REGEX.search(line)
MatchesFlush(l) == l.text.flush

\* faulty variant: the last line that starts like a date
LogStartLast(lg) ==
    LET S == {i \in DOMAIN lg : StartsLikeDate(lg[i])}
    IN IF S = {} THEN Len(lg) ELSE CHOOSE i \in S : \A j \in S : j <= i

\* get_log_start: the line the loop stops at, the first that starts like a
\* date, or the last line read when none does (0: no line was read)
LogStartLine(lg) ==
    LET S == {i \in DOMAIN lg : StartsLikeDate(lg[i])}
    IN IF S = {} THEN Len(lg) ELSE CHOOSE i \in S : \A j \in S : i <= j

\* (line_time - start_time).total_seconds()
TotalSeconds(line_time, start) == line_time - start

\* FlushEvent(relative_time, duration_secs, flushed_count, flushed_kb)
FlushEvent(l, start) ==
    [relative_time |-> TotalSeconds(l.t, start),
     duration_secs |-> l.text.secs,
     flushed_count |-> l.text.count,
     flushed_kb |-> l.text.kb]

InitLog ==
    /\ IbdIdle
    /\ InitLockIdle
    /\ InitCacheIdle
    /\ InitGitIdle
    /\ InitSuiteIdle
    /\ InitWaitIdle
    /\ InitPollIdle
    /\ InitUsageIdle
    /\ log \in Logs
    /\ lgpc = "start"
    /\ log_start = None
    /\ times = <<>>
    /\ lineno = 0

\* "start_time = get_log_start(filehandle)"
GetLogStart ==
    /\ lgpc = "start"
    /\ UNCHANGED <<ibdVars, lockVars, cacheVars, gitVars, suiteVars, usageVars,
                   waitVars, pollVars>>
    /\ UNCHANGED <<log, times, lineno>>
    /\ LET i == LogStartLine(log) IN
       IF i = 0 \/ ~ParsesDate(log[i])
       THEN \* IndexError of ''.split()[0], ValueError of strptime
            /\ lgpc' = "raised"
            /\ UNCHANGED log_start
       ELSE /\ log_start' = log[i].t
            /\ lgpc' = "scan"

\* one pass of "for line in filehandle", or the return after the last line
ScanLine ==
    /\ lgpc = "scan"
    /\ UNCHANGED <<ibdVars, lockVars, cacheVars, gitVars, suiteVars, usageVars,
                   waitVars, pollVars>>
    /\ UNCHANGED <<log, log_start>>
    /\ IF lineno = Len(log)
       THEN /\ lgpc' = "returned"
            /\ UNCHANGED <<times, lineno>>
       ELSE LET line == log[lineno + 1] IN
            /\ lineno' = lineno + 1
            /\ IF ~MatchesFlush(line)
               THEN UNCHANGED <<lgpc, times>>
               ELSE IF ~ParsesDate(line)
               THEN /\ lgpc' = "raised"
                    /\ UNCHANGED times
               ELSE /\ times' = Append(times, FlushEvent(line, log_start))
                    /\ UNCHANGED lgpc

NextLog ==
    \/ GetLogStart
    \/ ScanLine

SpecLog == InitLog /\ [][NextLog]_vars

\* the lines of the log that hold a flush message, and the k-th of them
FlushLines == {i \in DOMAIN log : MatchesFlush(log[i])}
KthFlushLine(k) ==
    CHOOSE i \in FlushLines : Cardinality({j \in FlushLines : j <= i}) = k
FirstStamped ==
    CHOOSE i \in DOMAIN log :
        /\ StartsLikeDate(log[i])
        /\ \A j \in 1..(i - 1) : ~StartsLikeDate(log[j])

\* C23: what get_flush_times returns holds one FlushEvent per line with a
\* flush message, in file order; its relative_time is the line's timestamp
\* minus the timestamp of the first timestamped line, its count, kB and
\* duration are the numbers of the line; other lines add nothing.  The call
\* raises only for a log in which the first timestamped line (or, without
\* one, the last line) or a line with a flush message has no timestamp in
\* the format of DATETIME_REGEX.
C23_FlushEventsPerMatchingLine ==
    /\ lgpc = "returned" =>
          /\ Len(times) = Cardinality(FlushLines)
          /\ \A k \in DOMAIN times :
                LET l == log[KthFlushLine(k)] IN
                /\ times[k].relative_time = l.t - log[FirstStamped].t
                /\ times[k].flushed_count = l.text.count
                /\ times[k].flushed_kb = l.text.kb
                /\ times[k].duration_secs = l.text.secs
    /\ lgpc = "raised" =>
          \/ \A i \in DOMAIN log : ~StartsLikeDate(log[i])
          \/ \E i \in DOMAIN log :
                /\ ~ParsesDate(log[i])
                /\ MatchesFlush(log[i]) \/ i = FirstStamped

C23_Witness ==
    /\ lgpc = "returned"
    /\ Len(log) = 3
    /\ ~StartsLikeDate(log[1])
    /\ ~MatchesFlush(log[2])
    /\ Len(times) = 1
    /\ times[1].relative_time = 9
    /\ times[1].flushed_count = 1201


(***************************************************************************)
(* Properties of the polling loop and of what follows it (Spec).           *)
(***************************************************************************)
\* the reports a step adds
NewReports == {i \in DOMAIN reported' : i > Len(reported)}

\* the last answered poll is the first that saw height c or more
FirstTickAtOrAbove(c) ==
    /\ observed # <<>>
    /\ observed[Len(observed)].height >= c
    /\ \A j \in 1..(Len(observed) - 1) : observed[j].height < c

\* C24 (as stated): the time of a checkpoint c is reported on the first poll
\* that sees height c or more, and its value is the time elapsed since
\* start_time at that poll.
C24_EmittedOnFirstTick ==
    [][\A i \in NewReports :
          (IsTime(reported'[i]) /\ IsCheckpoint(reported'[i])) =>
             /\ FirstTickAtOrAbove(reported'[i].name)
             /\ reported'[i].val = observed[Len(observed)].at - start_time]_vars

\* the reports named "tip"
TipReports == SelectSeq(reported, LAMBDA r : r.name = TipName)

\* C25 (as stated, for lists configured in ascending order): after a loop
\* that ended and a node that stopped with exit code 0 and no disk-low
\* marker, every configured checkpoint has been reported; "tip" is reported,
\* as a time and its mem-usage, if and only if no end height is configured;
\* the totals are set on this path only.
C25_SuccessPathReportsAll ==
    /\ (run_result = "completed" /\ IsAscending(cfg.time_heights)) =>
          /\ \A k \in DOMAIN cfg.time_heights :
                \E i \in DOMAIN CheckpointTimes :
                    CheckpointTimes[i].name = cfg.time_heights[k]
          /\ cfg.end_height = 0 =>
                /\ Len(TipReports) = 2
                /\ TipReports[1].metric = "time"
                /\ TipReports[2].metric = "mem-usage"
          /\ cfg.end_height # 0 => TipReports = <<>>
    /\ total_time_secs # None => run_result = "completed"
    /\ TipReports # <<>> => run_result = "completed"

\* the last answered poll, after the step
LastPoll == observed'[Len(observed')]

\* C26 (as stated): a step records a HeightSample or a checkpoint measurement
\* only when the last poll saw a height at or above the start height;
\* start_time is set on the first poll that saw such a height, to the time of
\* that poll, and does not change once set.
C26_NothingBelowStartHeight ==
    [][/\ (height_to_data' # height_to_data
             \/ \E i \in NewReports : IsCheckpoint(reported'[i])) =>
            /\ observed' # <<>>
            /\ LastPoll.height >= cfg.start_height
       /\ (start_time = None /\ start_time' # None) =>
            /\ observed' # <<>>
            /\ LastPoll.height >= cfg.start_height
            /\ \A j \in 1..(Len(observed') - 1) :
                  observed'[j].height < cfg.start_height
            /\ start_time' = LastPoll.at
       /\ start_time # None => start_time' = start_time]_vars

\* C28: when debug.log has the disk-low marker within its last 10000 lines
\* as the run ends, the run is failed even with exit code 0: the step that
\* ends it reports nothing (no remaining checkpoint, no tip), records no
\* HeightSample and leaves the totals unset.
C28_DiskLowFailsRun ==
    /\ [](CheckDiskLow(marker_age) =>
             /\ run_result = "failed"
             /\ total_time_secs = None
             /\ TipReports = <<>>)
    /\ [][CheckDiskLow(marker_age') =>
             /\ reported' = reported
             /\ height_to_data' = height_to_data
             /\ report_to_codespeed_heights' = report_to_codespeed_heights]_vars

C28_Witness ==
    /\ marker_age = TAIL_LINES
    /\ run_result = "failed"
    /\ Client.code = 0
    /\ cfg.end_height = 0
    /\ progress > 9999
    /\ report_to_codespeed_heights # <<>>
    /\ Head(report_to_codespeed_heights) <= last_height_seen

\* a server node is used and its block count is below the configured end
\* height or not above the client's header count
ServerChainTooShort ==
    /\ server_node # 0
    /\ server_blocks # None
    /\ client_headers # None
    /\ \/ cfg.end_height # 0 /\ server_blocks < cfg.end_height
       \/ server_blocks <= client_headers

\* C29: with a server node whose block count is below the end height or not
\* above the client's header count, _run raises before the first poll of
\* the loop and before any measurement or HeightSample is recorded.
C29_ShortServerChainRaises ==
    ServerChainTooShort =>
        /\ run_result = "raised"
        /\ run_exc \in {"RuntimeError", "TypeError"}
        /\ observed = <<>>
        /\ start_time = None
        /\ reported = <<>>
        /\ height_to_data = <<>>
        /\ total_time_secs = None

C29_Witness ==
    /\ ServerChainTooShort
    /\ cfg.end_height = 250
    /\ server_blocks = 300
    /\ client_headers = 300
    /\ run_exc = "RuntimeError"
    /\ pc = "raised"

\* no poll saw a lower height than an earlier one
HeightsNeverDrop ==
    \A i, j \in DOMAIN observed : i < j => observed[i].height <= observed[j].height

\* C30: for a node that never reports a lower height than before, the
\* HeightSamples of height_to_data, in the order they were recorded and with
\* the sample written after the loop, are strictly increasing in elapsed
\* time and non-decreasing in height.
C30_SamplesOrdered ==
    HeightsNeverDrop =>
        \A i, j \in DOMAIN height_to_data :
            i < j =>
               /\ height_to_data[i].time_secs < height_to_data[j].time_secs
               /\ height_to_data[i].height <= height_to_data[j].height

C30_Witness ==
    /\ run_result = "completed"
    /\ Len(observed) = 3
    /\ Len(height_to_data) = 2
    /\ height_to_data[1].time_secs > 0
    /\ height_to_data[2].time_secs = total_time_secs


(***************************************************************************)
(* Resource sampling while the daemon ends (sh.py 138-190).                *)
(***************************************************************************)
\* the daemon has ended and Popen has not recorded it yet
ExitNotRecorded == Client.os = "exited" /\ Client.returncode = None

\* C33 (as stated): when the daemon has ended after the last answered poll
\* and before its exit is recorded, the resource sample and the memory
\* measurement of the polling loop raise nothing.
C33_SamplingToleratesExit ==
    [][(pc \in {"sample", "drain"} /\ ExitNotRecorded) => run_exc' # "Error"]_vars


(***************************************************************************)
(* Command.get_resource_usage (sh.py 157-190).  The spawned process is 1;  *)
(* every other process has a parent with a smaller id.  A call is taken    *)
(* on a process tree that does not change while it runs.                   *)
(***************************************************************************)
MaxPids == 4

\* psutil's Process.name() of the processes met
ProcNames == {"sh", "time", "bitcoind", "b-net", "bash"}

ProcTrees ==
    {t \in [1..MaxPids -> [name : ProcNames, parent : 0..(MaxPids - 1)]] :
        \A i \in 1..MaxPids : t[i].parent < i /\ (t[i].parent = 0 <=> i = 1)}

\* "name in ['sh', 'time']"
IsWrapper(name) == name \in {"sh", "time"}

\* "name.startswith('bitcoin') or name.startswith('b-')"
IsDaemonName(name) == name \in {"bitcoind", "b-net"}

\* proc_.children()
Children(p) == {c \in DOMAIN ptree : ptree[c].parent = p}

\* faulty variant: a wrapper with several children is walked too
HasAChild(p) == Children(p) # {}

\* "assert len(proc_.children()) == 1"
HasOneChild(p) == Cardinality(Children(p)) = 1

\* proc_.children()[0]
FirstChild(p) == CHOOSE c \in Children(p) : \A d \in Children(p) : c <= d

InitUsage ==
    /\ IbdIdle
    /\ InitLockIdle
    /\ InitCacheIdle
    /\ InitGitIdle
    /\ InitSuiteIdle
    /\ InitWaitIdle
    /\ InitPollIdle
    /\ InitLogIdle
    /\ ptree \in ProcTrees
    /\ cmd_daemon \in BOOLEAN
    /\ upc = "start"
    /\ uproc = 0

\* lines 161-166 and 183: proc = Process(self.ps.pid), walked when the
\* command line names the daemon
UsageStart ==
    /\ upc = "start"
    /\ uproc' = 1
    /\ upc' = IF cmd_daemon THEN "find" ELSE "sample"
    /\ UNCHANGED <<ibdVars, lockVars, cacheVars, gitVars, suiteVars, waitVars,
                   pollVars, logVars, ptree, cmd_daemon>>

\* one call of find_process (167-181)
FindProcess ==
    /\ upc = "find"
    /\ IF IsWrapper(ptree[uproc].name)
       THEN IF HasOneChild(uproc)
            THEN /\ uproc' = FirstChild(uproc)
                 /\ UNCHANGED upc
            ELSE \* AssertionError
                 /\ upc' = "raised"
                 /\ UNCHANGED uproc
       ELSE IF IsDaemonName(ptree[uproc].name)
            THEN /\ upc' = "sample"
                 /\ UNCHANGED uproc
            ELSE \* AssertionError
                 /\ upc' = "raised"
                 /\ UNCHANGED uproc
    /\ UNCHANGED <<ibdVars, lockVars, cacheVars, gitVars, suiteVars, waitVars,
                   pollVars, logVars, ptree, cmd_daemon>>

\* lines 185-190: the figures of proc are read and returned
SampleProcess ==
    /\ upc = "sample"
    /\ upc' = "returned"
    /\ UNCHANGED <<ibdVars, lockVars, cacheVars, gitVars, suiteVars, waitVars,
                   pollVars, logVars, ptree, cmd_daemon, uproc>>

NextUsage ==
    \/ UsageStart
    \/ FindProcess
    \/ SampleProcess

SpecUsage == InitUsage /\ [][NextUsage]_vars

\* the process at the end of the chain of wrappers with one child each that
\* starts at p; 0 when a wrapper of the chain has no child or several
RECURSIVE EndOfChain(_)
EndOfChain(p) ==
    IF ptree[p].name \notin {"sh", "time"} THEN p
    ELSE LET cs == {c \in DOMAIN ptree : ptree[c].parent = p}
         IN IF Cardinality(cs) = 1 THEN EndOfChain(CHOOSE c \in cs : TRUE)
            ELSE 0

\* the walk from the spawned process ends at a daemon
ReachesDaemon ==
    /\ EndOfChain(1) # 0
    /\ ptree[EndOfChain(1)].name \in {"bitcoind", "b-net"}

\* C34: for a command line that runs the daemon, a call that returns has
\* sampled the process at the end of the chain of single children of the
\* sh and time wrappers, which is a daemon and no wrapper; the call fails
\* an assertion exactly when a wrapper of the chain has not exactly one
\* child or the process reached is no daemon.
C34_SamplesDaemonBelowWrappers ==
    cmd_daemon =>
        /\ upc = "returned" =>
              /\ ReachesDaemon
              /\ uproc = EndOfChain(1)
              /\ ptree[uproc].name \notin {"sh", "time"}
        /\ upc = "raised" => ~ReachesDaemon

\* the process sampled is the fourth of a chain: three wrappers above it
C34_Witness ==
    /\ cmd_daemon
    /\ upc = "returned"
    /\ uproc = 4
    /\ ptree[4].parent = 3
    /\ ptree[3].parent = 2
    /\ ptree[2].parent = 1


\* C36 (as stated): the configured source data directory is still in place
\* after the teardown, whatever the benchmark class and the stash setting.
C36_SourceDatadirKept ==
    cfg.kind # "ibd" => src_datadir = "present"


(***************************************************************************)
(* Executions one after another: the loop of maybe_run_bench_some_times    *)
(* (main.py 154-157) calls b.run on a new benchmark object when the call   *)
(* before it has returned.  Node.all_instances and the directories on disk *)
(* outlive an execution; an exception leaving b.run ends the loop.         *)
(***************************************************************************)
SeqConfigs == {c \in Configs : c.time_heights = <<>> /\ c.start_height = 0}

InitSeq ==
    /\ InitIbd
    /\ cfg \in SeqConfigs
    /\ InitLockIdle
    /\ InitCacheIdle
    /\ InitGitIdle
    /\ InitAuxIdle
    /\ benches = {}
    /\ spc = "benching"
    /\ ran = 1
    /\ last_run = "none"

\* "b = bench_class(cfg, bench_cfg, compiler, target, i); b.run(cfg, bench_cfg)"
NextExecution ==
    /\ pc = "returned"
    /\ ran < MaxRunCount
    /\ ran' = ran + 1
    /\ last_run' = run_result
    /\ pc' = "start"
    \* _IbdBench.__init__: self.client_node = self.server_node = None
    /\ server_node' = 0
    /\ client_node' = 0
    /\ last_height_seen' = None
    /\ progress' = None
    /\ start_time' = None
    /\ time_now' = None
    /\ now' = 1
    /\ report_to_codespeed_heights' = <<>>
    /\ reported' = <<>>
    /\ total_time_secs' = None
    /\ run_result' = "none"
    /\ run_exc' = "none"
    /\ teardown_exc' = "none"
    /\ teardown_calls' = 0
    /\ observed' = <<>>
    /\ height_to_data' = <<>>
    /\ server_blocks' = None
    /\ client_headers' = None
    /\ marker_age' = None
    /\ UNCHANGED <<cfg, all_instances, datadir, src_datadir>>
    /\ UNCHANGED <<lockVars, cacheVars, gitVars, auxVars, benches, spc>>

NextSeq ==
    \/ Next
    \/ NextExecution

SpecSeq == InitSeq /\ [][NextSeq]_vars

\* the nodes constructed by the executions before the one under way
EarlierNodes ==
    {i \in DOMAIN all_instances : i # server_node /\ i # client_node}

\* C35: when an execution is about to start its nodes (the server, then
\* the client), no process of a node of an earlier execution of the run is
\* alive, so that none runs on the working data directory.
C35_ExecutionsSequential ==
    (ran > 1 /\ pc \in {"start", "get_client"}) =>
        \A i \in EarlierNodes : all_instances[i].os # "running"

\* the second execution starts its client after a first one with two nodes
C35_Witness ==
    /\ ran = 2
    /\ pc = "wait_for_init"
    /\ Len(all_instances) >= 3
    /\ all_instances[1].started
    /\ all_instances[2].started
    /\ Client.os = "running"


=============================================================================
